---------------------------- MODULE Spec2Model ----------------------------
(***************************************************************************)
(* Verification model of flow-prediction (66HEX/flow-prediction).          *)
(*                                                                         *)
(* Part I  : the prefetch scheduler, hook usePreloadOnPrediction           *)
(*           (src/src/hooks/useMouseTracker.ts, lines 283-611).            *)
(* Part II : the particle filter, class ParticleFilter                     *)
(*           (src/src/hooks/__tests__/useCursorPredictor.test.tsx,         *)
(*            lines 654-1315).                                             *)
(*                                                                         *)
(* Time is counted in clock ticks.  Probabilities are in hundredths.       *)
(***************************************************************************)
EXTENDS Integers, Sequences, FiniteSets, TLC

(***************************************************************************)
(* Bounds of the model                                                     *)
(***************************************************************************)
MaxFetches == 3
StartTime == 10
MaxTicks == 2
MaxSamples == 2

(***************************************************************************)
(* Options of usePreloadOnPrediction and constants of its code             *)
(***************************************************************************)
minProbability == 60
maxConcurrentPreloads == 1
cacheSize == 2
checkFrequency == 1
maxAge == 1

Urls == {1, 2, 3}
MaxTime == StartTime + MaxTicks

Min(a, b) == IF a < b THEN a ELSE b

Range(s) == {s[i] : i \in 1..Len(s)}

(***************************************************************************)
(* The output of the index query and of the scoring of one evaluation      *)
(* cycle: the links returned by queryLine, in document order, each with    *)
(* the probability and timeToReach calculateHitProbability gave it.  A     *)
(* link is identified with its href.                                       *)
(***************************************************************************)
Low == [probability |-> 50, timeToReach |-> 100]
High == [probability |-> 90, timeToReach |-> 100]

SchedScores == {Low, High}

RankScores == { Low, High,
                [probability |-> 60, timeToReach |-> 100],
                [probability |-> 90, timeToReach |-> 300] }

Scored(score) ==
    [e \in Urls |-> [element |-> e,
                     probability |-> score[e].probability,
                     timeToReach |-> score[e].timeToReach]]

VARIABLES
    now,                 \* Date.now()
    lastExecutionTime,   \* lastExecutionTimeRef.current
    preloadCache,        \* preloadCache.current, in Map insertion order
    activePreloads,      \* activePreloads.current: url -> controller (0: none)
    fetches,             \* fetch promises whose callback has not run yet
    nextId,              \* identity of the next AbortController
    preloadedResources,  \* state preloadedResources
    potentialTargets,    \* state potentialTargets
    mounted,             \* the component is mounted (its cleanup has not run)
    clearedInFlight,     \* history: the unsettled fetches that were in flight
                         \*          (started, not cancelled) at a clearCache call
    ranAt,               \* history: when the latest evaluation cycle ran (0: never)
    last                 \* history: what the latest handler did

schedVars == << now, lastExecutionTime, preloadCache, activePreloads, fetches,
                nextId, preloadedResources, potentialTargets, mounted,
                clearedInFlight, ranAt, last >>


(***************************************************************************)
(* Map helpers for preloadCache (a sequence of entries, one per key, in    *)
(* insertion order, as a JavaScript Map iterates).                         *)
(***************************************************************************)
CacheKeys(cache) == {cache[i].url : i \in 1..Len(cache)}

CacheHas(cache, url) == url \in CacheKeys(cache)

CacheSet(cache, url, status, timestamp) ==
    LET entry == [url |-> url, status |-> status, timestamp |-> timestamp]
    IN IF CacheHas(cache, url)
       THEN [i \in 1..Len(cache) |-> IF cache[i].url = url THEN entry ELSE cache[i]]
       ELSE Append(cache, entry)

SchedInit ==
    /\ now = StartTime
    /\ lastExecutionTime = 0
    /\ preloadCache = << >>
    /\ activePreloads = [u \in Urls |-> 0]
    /\ fetches = {}
    /\ nextId = 1
    /\ preloadedResources = << >>
    /\ potentialTargets = << >>
    /\ mounted = TRUE
    /\ clearedInFlight = {}
    /\ ranAt = 0
    /\ last = [op |-> "mount"]

(***************************************************************************)
(* elementsWithProbabilities: filter, then Array.prototype.sort (stable)   *)
(* with the comparator of lines 481-488.                                   *)
(***************************************************************************)
FilterCandidates(scored) ==
    SelectSeq(scored, LAMBDA c : c.probability >= minProbability)

\* Mutant: the comparator orders by probability ascending.
compareCandidates_Ascending(a, b) ==
    IF b.probability # a.probability
    THEN a.probability - b.probability
    ELSE a.timeToReach - b.timeToReach

compareCandidates(a, b) ==
    IF b.probability # a.probability
    THEN b.probability - a.probability
    ELSE a.timeToReach - b.timeToReach

RECURSIVE InsertCandidate(_, _)
InsertCandidate(s, x) ==
    IF s = << >> THEN << x >>
    ELSE IF compareCandidates(Head(s), x) > 0
         THEN << x >> \o s
         ELSE << Head(s) >> \o InsertCandidate(Tail(s), x)

RECURSIVE SortCandidates(_)
SortCandidates(s) ==
    IF s = << >> THEN << >>
    ELSE InsertCandidate(SortCandidates(SubSeq(s, 1, Len(s) - 1)), s[Len(s)])

\* Mutant: the slice to maxConcurrentPreloads is forgotten.
TargetsToPreload_NoSlice(elementsWithProbabilities) == elementsWithProbabilities

TargetsToPreload(elementsWithProbabilities) ==
    SubSeq(elementsWithProbabilities, 1,
           Min(maxConcurrentPreloads, Len(elementsWithProbabilities)))

(***************************************************************************)
(* preloadUrl, lines 398-422: the synchronous part.  st holds the refs and *)
(* the state the call reads and writes.                                    *)
(***************************************************************************)
\* Mutant: a key whose cache entry is a failure is fetched again.
preloadUrl_RetryFailed(st, url, probability, timeToReach) ==
    IF (\E i \in 1..Len(st.cache) :
           st.cache[i].url = url /\ st.cache[i].status # "error")
       \/ st.active[url] # 0
    THEN st
    ELSE [ st EXCEPT
             !.active = [@ EXCEPT ![url] = st.nextId],
             !.resources = Append(@, [url |-> url, status |-> "loading",
                                      probability |-> probability,
                                      estimatedTimeToReach |-> timeToReach]),
             !.fetches = @ \cup {[id |-> st.nextId, url |-> url, aborted |-> FALSE]},
             !.nextId = @ + 1 ]

preloadUrl(st, url, probability, timeToReach) ==
    IF CacheHas(st.cache, url) \/ st.active[url] # 0
    THEN st
    ELSE [ st EXCEPT
             !.active = [@ EXCEPT ![url] = st.nextId],
             !.resources = Append(@, [url |-> url, status |-> "loading",
                                      probability |-> probability,
                                      estimatedTimeToReach |-> timeToReach]),
             !.fetches = @ \cup {[id |-> st.nextId, url |-> url, aborted |-> FALSE]},
             !.nextId = @ + 1 ]

RECURSIVE PreloadAll(_, _)
PreloadAll(st, targets) ==
    IF targets = << >> THEN st
    ELSE PreloadAll(preloadUrl(st, Head(targets).element,
                               Head(targets).probability,
                               Head(targets).timeToReach),
                    Tail(targets))

(***************************************************************************)
(* checkPotentialTargets, lines 459-503, on the scored query result.       *)
(***************************************************************************)
checkPotentialTargets(scored) ==
    LET elementsWithProbabilities == SortCandidates(FilterCandidates(scored))
        targetsToPreload == TargetsToPreload(elementsWithProbabilities)
        st0 == [cache |-> preloadCache, active |-> activePreloads,
                resources |-> preloadedResources, fetches |-> fetches,
                nextId |-> nextId]
        st1 == PreloadAll(st0, targetsToPreload)
    IN /\ st1.nextId <= MaxFetches + 1
       /\ potentialTargets' = elementsWithProbabilities
       /\ activePreloads' = st1.active
       /\ preloadedResources' = st1.resources
       /\ fetches' = st1.fetches
       /\ nextId' = st1.nextId
       /\ ranAt' = now
       /\ last' = [op |-> "cycle"]
       /\ UNCHANGED << preloadCache, mounted, clearedInFlight >>

(***************************************************************************)
(* The throttled effect, lines 506-517, run on a change of position or of  *)
(* predictedPosition.                                                      *)
(***************************************************************************)
\* Mutant: the time of the previous cycle is not subtracted.
ThrottlePassed_NoSubtract == now >= checkFrequency

ThrottlePassed == now - lastExecutionTime >= checkFrequency

EvaluationEffect(scores) ==
    /\ mounted
    /\ IF ThrottlePassed
       THEN \E score \in [Urls -> scores] :
                /\ lastExecutionTime' = now
                /\ checkPotentialTargets(Scored(score))
                /\ UNCHANGED now
       ELSE /\ last' = [op |-> "throttled"]
            /\ UNCHANGED << now, lastExecutionTime, preloadCache, activePreloads,
                            fetches, nextId, preloadedResources, potentialTargets,
                            mounted, clearedInFlight, ranAt >>

(***************************************************************************)
(* The callbacks of the fetch promise, lines 423-455.                      *)
(***************************************************************************)
SetStatus(resources, url, status) ==
    [i \in 1..Len(resources) |->
        IF resources[i].url = url
        THEN [resources[i] EXCEPT !.status = status]
        ELSE resources[i]]

\* Mutant: the handle of a cancelled fetch is left in the map.
ActiveDelete_UnlessAborted(active, f) ==
    IF f.aborted THEN active ELSE [active EXCEPT ![f.url] = 0]

ActiveDelete(active, f) == [active EXCEPT ![f.url] = 0]

FetchThen ==
    \E f \in fetches :
        /\ ~f.aborted
        /\ preloadCache' = CacheSet(preloadCache, f.url, "complete", now)
        /\ preloadedResources' = SetStatus(preloadedResources, f.url, "complete")
        /\ activePreloads' = ActiveDelete(activePreloads, f)
        /\ fetches' = fetches \ {f}
        /\ last' = [op |-> "settle", outcome |-> "complete", url |-> f.url]
        /\ clearedInFlight' = clearedInFlight \ {f.id}
        /\ UNCHANGED << now, lastExecutionTime, nextId, potentialTargets,
                        mounted, ranAt >>

\* Mutant: the catch callback does not look at the name of the error.
FetchCatch_RecordsAbort ==
    \E f \in fetches :
        /\ preloadCache' = CacheSet(preloadCache, f.url, "error", now)
        /\ preloadedResources' = SetStatus(preloadedResources, f.url, "error")
        /\ activePreloads' = ActiveDelete(activePreloads, f)
        /\ fetches' = fetches \ {f}
        /\ last' = [op |-> "settle", url |-> f.url,
                     outcome |-> IF f.aborted THEN "cancelled" ELSE "error"]
        /\ clearedInFlight' = clearedInFlight \ {f.id}
        /\ UNCHANGED << now, lastExecutionTime, nextId, potentialTargets,
                        mounted, ranAt >>

FetchCatch ==
    \E f \in fetches :
        /\ IF ~f.aborted
           THEN /\ preloadCache' = CacheSet(preloadCache, f.url, "error", now)
                /\ preloadedResources' = SetStatus(preloadedResources, f.url, "error")
           ELSE UNCHANGED << preloadCache, preloadedResources >>
        /\ activePreloads' = ActiveDelete(activePreloads, f)
        /\ fetches' = fetches \ {f}
        /\ last' = [op |-> "settle", url |-> f.url,
                     outcome |-> IF f.aborted THEN "cancelled" ELSE "error"]
        /\ clearedInFlight' = clearedInFlight \ {f.id}
        /\ UNCHANGED << now, lastExecutionTime, nextId, potentialTargets,
                        mounted, ranAt >>

(***************************************************************************)
(* cleanCache, lines 520-547, run by the interval of lines 563-582.        *)
(***************************************************************************)
RemoveOld(cache) ==
    SelectSeq(cache, LAMBDA e : ~(now - e.timestamp > maxAge))

RECURSIVE InsertByTimestamp(_, _)
InsertByTimestamp(s, x) ==
    IF s = << >> THEN << x >>
    ELSE IF Head(s).timestamp - x.timestamp > 0
         THEN << x >> \o s
         ELSE << Head(s) >> \o InsertByTimestamp(Tail(s), x)

RECURSIVE SortByTimestamp(_)
SortByTimestamp(s) ==
    IF s = << >> THEN << >>
    ELSE InsertByTimestamp(SortByTimestamp(SubSeq(s, 1, Len(s) - 1)), s[Len(s)])

\* Mutant: the excess entries are taken from the newest end.
LimitCacheSize_NewestFirst(cache) ==
    LET entriesToRemove == Len(cache) - cacheSize
        entries == SortByTimestamp(cache)
        removed == IF entriesToRemove > 0
                   THEN {entries[Len(entries) + 1 - i].url :
                            i \in 1..Min(entriesToRemove, Len(entries))}
                   ELSE {}
    IN SelectSeq(cache, LAMBDA e : e.url \notin removed)

\* Mutant: one excess entry too few is removed.
LimitCacheSize_OffByOne(cache) ==
    LET entriesToRemove == Len(cache) - cacheSize - 1
        entries == SortByTimestamp(cache)
        removed == IF entriesToRemove > 0
                   THEN {entries[i].url : i \in 1..Min(entriesToRemove, Len(entries))}
                   ELSE {}
    IN SelectSeq(cache, LAMBDA e : e.url \notin removed)

LimitCacheSize(cache) ==
    LET entriesToRemove == Len(cache) - cacheSize
        entries == SortByTimestamp(cache)
        removed == IF entriesToRemove > 0
                   THEN {entries[i].url : i \in 1..Min(entriesToRemove, Len(entries))}
                   ELSE {}
    IN SelectSeq(cache, LAMBDA e : e.url \notin removed)

cleanCache ==
    LET unexpired == RemoveOld(preloadCache)
        kept == LimitCacheSize(unexpired)
    IN /\ mounted
       /\ preloadCache' = kept
       /\ preloadedResources' =
             SelectSeq(preloadedResources, LAMBDA r : CacheHas(kept, r.url))
       /\ last' = [op |-> "cleanCache", evicted |-> Len(unexpired) - Len(kept)]
       /\ UNCHANGED << now, lastExecutionTime, activePreloads, fetches, nextId,
                       potentialTargets, mounted, clearedInFlight, ranAt >>

(***************************************************************************)
(* clearCache, lines 550-560.                                              *)
(***************************************************************************)
Abort(fs, controllers) ==
    {[f EXCEPT !.aborted = f.aborted \/ f.id \in controllers] : f \in fs}

clearCache ==
    LET controllers == {activePreloads[u] : u \in Urls} \ {0}
    IN /\ mounted
       /\ fetches' = Abort(fetches, controllers)
       /\ activePreloads' = [u \in Urls |-> 0]
       /\ preloadCache' = << >>
       /\ preloadedResources' = << >>
       /\ clearedInFlight' = clearedInFlight \cup {f.id : f \in {g \in fetches : ~g.aborted}}
       /\ last' = [op |-> "clearCache"]
       /\ UNCHANGED << now, lastExecutionTime, nextId, potentialTargets,
                       mounted, ranAt >>

(***************************************************************************)
(* The cleanup of the unmount effect, lines 585-602: the controllers held  *)
(* in activePreloads are aborted; the maps are left as they are.  The      *)
(* effects and the interval do not run afterwards; the callbacks of the    *)
(* fetch promises still do.                                                *)
(***************************************************************************)
unmount ==
    LET controllers == {activePreloads[u] : u \in Urls} \ {0}
    IN /\ mounted
       /\ mounted' = FALSE
       /\ fetches' = Abort(fetches, controllers)
       /\ last' = [op |-> "unmount"]
       /\ UNCHANGED << now, lastExecutionTime, preloadCache, activePreloads,
                       nextId, preloadedResources, potentialTargets,
                       clearedInFlight, ranAt >>

Tick ==
    /\ now < MaxTime
    /\ now' = now + 1
    /\ last' = [op |-> "tick"]
    /\ UNCHANGED << lastExecutionTime, preloadCache, activePreloads, fetches,
                    nextId, preloadedResources, potentialTargets, mounted,
                    clearedInFlight, ranAt >>

(***************************************************************************)
(* Part II: class ParticleFilter                                           *)
(*                                                                         *)
(* A JavaScript number that is a weight is a non-negative rational         *)
(* << n, d >> in lowest terms, or Infinity (<< 1, 0 >>) or NaN             *)
(* (<< 0, 0 >>).  Positions and velocities are integers: the samples lie   *)
(* on a grid and arrive whole seconds apart.                               *)
(***************************************************************************)
RECURSIVE GCD(_, _)
GCD(a, b) == IF b = 0 THEN a ELSE GCD(b, a % b)

NaN == << 0, 0 >>
Infinity == << 1, 0 >>

IsNaN(a) == a = NaN
IsInf(a) == a = Infinity
IsFinite(a) == a[2] # 0

Num(n, d) == LET g == GCD(n, d) IN << n \div g, d \div g >>

Zero == << 0, 1 >>
One == << 1, 1 >>
Half == << 1, 2 >>

\* a + b
Add(a, b) ==
    IF IsNaN(a) \/ IsNaN(b) THEN NaN
    ELSE IF IsInf(a) \/ IsInf(b) THEN Infinity
    ELSE Num(a[1] * b[2] + b[1] * a[2], a[2] * b[2])

\* a - b, for a >= b
Sub(a, b) ==
    IF IsNaN(a) \/ IsNaN(b) THEN NaN
    ELSE IF IsInf(a) THEN (IF IsInf(b) THEN NaN ELSE Infinity)
    ELSE Num(a[1] * b[2] - b[1] * a[2], a[2] * b[2])

\* a * b
Mul(a, b) ==
    IF IsNaN(a) \/ IsNaN(b) THEN NaN
    ELSE IF IsInf(a) THEN (IF b = Zero THEN NaN ELSE Infinity)
    ELSE IF IsInf(b) THEN (IF a = Zero THEN NaN ELSE Infinity)
    ELSE Num(a[1] * b[1], a[2] * b[2])

\* a / b
Div(a, b) ==
    IF IsNaN(a) \/ IsNaN(b) THEN NaN
    ELSE IF IsInf(a) THEN (IF IsInf(b) THEN NaN ELSE Infinity)
    ELSE IF IsInf(b) THEN Zero
    ELSE IF b[1] = 0 THEN (IF a[1] = 0 THEN NaN ELSE Infinity)
    ELSE Num(a[1] * b[2], a[2] * b[1])

\* a > b: false when either is NaN
Greater(a, b) ==
    IF IsNaN(a) \/ IsNaN(b) THEN FALSE
    ELSE IF IsInf(a) THEN ~IsInf(b)
    ELSE IF IsInf(b) THEN FALSE
    ELSE a[1] * b[2] > b[1] * a[2]

\* a < b: false when either is NaN
Less(a, b) == Greater(b, a)

(***************************************************************************)
(* Bounds and inputs of the filter                                         *)
(***************************************************************************)
\* The particle counts a filter is constructed with.
ParticleCounts == {1, 2, 3}

\* The samples fed to update: positions on a grid, timestamps in ms.
Positions == { [x |-> 0, y |-> 0], [x |-> 2, y |-> 0], [x |-> 2, y |-> 2] }
Stamps == {1000, 1500, 2000}

\* The draws of generateNoise (Box-Muller on Math.random), and of
\* Math.random in resampleParticles.
NoNoise == [x |-> 0, y |-> 0, vx |-> 0, vy |-> 0]
Noises == { NoNoise, [x |-> 2, y |-> 0, vx |-> 2, vy |-> 4] }
Randoms == {Zero, Half}

\* Options of the constructor.
ProcessNoises == {5, 10}
resampleThreshold == Half

\* null and a non-null value
None == << >>
Some(v) == << v >>

VARIABLES
    numParticles,        \* this.numParticles
    processNoise,        \* this.processNoise
    minProcessNoise,     \* this.minProcessNoise
    maxProcessNoise,     \* this.maxProcessNoise
    particles,           \* this.particles
    lastTimestamp,       \* this.lastTimestamp
    lastMeasurement,     \* this.lastMeasurement
    exactStateOverride,  \* this.exactStateOverride
    measurementHistory,  \* this.measurementHistory
    samples,             \* number of update calls since construction or reset
    pfLast               \* history: what the latest call did

pfVars == << numParticles, processNoise, minProcessNoise, maxProcessNoise,
             particles, lastTimestamp,
             lastMeasurement, exactStateOverride, measurementHistory, samples,
             pfLast >>

(***************************************************************************)
(* calculateLikelihood, lines 779-787: exp(-distSquared / (2 sigma^2)) is  *)
(* 1 at distance 0, lies strictly between 0 and 1 near the sample and      *)
(* underflows to exactly 0 far from it.  The grid is such that a particle  *)
(* two cells or more from the sample is far.                               *)
(***************************************************************************)
FarDistSquared == 8

calculateLikelihood(particle, measurement) ==
    LET dx == particle.x - measurement.x
        dy == particle.y - measurement.y
        distSquared == dx * dx + dy * dy
    IN IF distSquared = 0 THEN One
       ELSE IF distSquared < FarDistSquared THEN Half
       ELSE Zero

(***************************************************************************)
(* initializeParticles, lines 726-754.  noise[i] is the draw for the       *)
(* particle of index i; the first particle is exact and has none.          *)
(***************************************************************************)
initializeParticles(state, n, noise) ==
    LET particleWeight == Div(Num(4, 5), Num(n - 1, 1))
        len == IF n < 1 THEN 1 ELSE n
    IN [i \in 1..len |->
          IF i = 1
          THEN [x |-> state.x, y |-> state.y, vx |-> state.vx, vy |-> state.vy,
                weight |-> Num(1, 5)]
          ELSE [x |-> state.x + noise[i].x, y |-> state.y + noise[i].y,
                vx |-> state.vx + noise[i].vx, vy |-> state.vy + noise[i].vy,
                weight |-> particleWeight]]

(***************************************************************************)
(* getState, lines 1232-1266.  The constructor, the first update and reset *)
(* all assign exactStateOverride an object and nothing assigns it null     *)
(* (ExactStateSet below), so the test of line 1234 passes and the override *)
(* is returned.                                                            *)
(***************************************************************************)
getState(exact) == exact[1]

(***************************************************************************)
(* propagateParticles, lines 976-1015, over dtMs milliseconds.  noise[i]   *)
(* is biasedNoise for the particle of index i: the draw of line 991 with   *)
(* the bias of lines 997-1005 added.                                       *)
(***************************************************************************)
propagateParticles(ps, dtMs, noise) ==
    [i \in 1..Len(ps) |->
        IF i = 1
        THEN [ps[i] EXCEPT !.x = @ + (ps[i].vx * dtMs) \div 1000,
                           !.y = @ + (ps[i].vy * dtMs) \div 1000]
        ELSE [ps[i] EXCEPT !.x = @ + (ps[i].vx * dtMs) \div 1000 + noise[i].x,
                           !.y = @ + (ps[i].vy * dtMs) \div 1000 + noise[i].y,
                           !.vx = @ + noise[i].vx,
                           !.vy = @ + noise[i].vy \div 2]]

(***************************************************************************)
(* updateWeights, lines 1020-1079.                                         *)
(***************************************************************************)
RECURSIVE SumWeights(_, _, _)
SumWeights(ps, from, acc) ==
    IF from > Len(ps) THEN acc
    ELSE SumWeights(ps, from + 1, Add(acc, ps[from].weight))

updateWeightsExact(ps, exact, measurement) ==
    LET n == Len(ps)
        first == [ps[1] EXCEPT !.x = exact.x, !.y = exact.y, !.weight = Half]
        weighted == [i \in 1..n |->
                       IF i = 1 THEN first
                       ELSE [ps[i] EXCEPT !.weight =
                               Mul(@, calculateLikelihood(ps[i], measurement))]]
        totalWeight == SumWeights(weighted, 1, Zero)
        remainingWeight == Sub(One, first.weight)
    IN IF Greater(totalWeight, Zero)
       THEN LET scale == Div(remainingWeight, Sub(totalWeight, first.weight))
            IN [i \in 1..n |->
                  IF i = 1 THEN first
                  ELSE [weighted[i] EXCEPT !.weight = Mul(@, scale)]]
       ELSE LET weight == Div(remainingWeight, Num(n - 1, 1))
            IN [i \in 1..n |->
                  IF i = 1 THEN first
                  ELSE [weighted[i] EXCEPT !.weight = weight]]

updateWeightsNormal(ps, measurement) ==
    LET n == Len(ps)
        weighted == [i \in 1..n |->
                       [ps[i] EXCEPT !.weight =
                           Mul(@, calculateLikelihood(ps[i], measurement))]]
        totalWeight == SumWeights(weighted, 1, Zero)
    IN IF Greater(totalWeight, Zero)
       THEN [i \in 1..n |-> [weighted[i] EXCEPT !.weight = Div(@, totalWeight)]]
       ELSE [i \in 1..n |-> [weighted[i] EXCEPT !.weight = Div(One, Num(n, 1))]]

updateWeights(ps, exact, measurement) ==
    IF exact # None
    THEN updateWeightsExact(ps, exact[1], measurement)
    ELSE updateWeightsNormal(ps, measurement)

(***************************************************************************)
(* getEffectiveParticleCount, lines 1084-1092.                             *)
(***************************************************************************)
RECURSIVE SumSquaredWeights(_, _, _)
SumSquaredWeights(ps, from, acc) ==
    IF from > Len(ps) THEN acc
    ELSE SumSquaredWeights(ps, from + 1,
                           Add(acc, Mul(ps[from].weight, ps[from].weight)))

getEffectiveParticleCount(ps) == Div(One, SumSquaredWeights(ps, 1, Zero))

(***************************************************************************)
(* resampleParticles, lines 1097-1159.  Indices i and j are those of the   *)
(* code (from 0); ps[i + 1] is this.particles[i].                          *)
(***************************************************************************)
Clone(p, weight) ==
    [x |-> p.x, y |-> p.y, vx |-> p.vx, vy |-> p.vy, weight |-> weight]

RECURSIVE Advance(_, _, _, _, _)
Advance(ps, n, target, i, cumulative) ==
    IF Greater(target, cumulative) /\ i < n - 1
    THEN Advance(ps, n, target, i + 1, Add(cumulative, ps[i + 2].weight))
    ELSE << i, cumulative >>

\* The loop of lines 1109-1125 without its last iteration.
RECURSIVE ResampleExactLoop_OneShort(_, _, _, _, _, _, _, _)
ResampleExactLoop_OneShort(ps, n, offset, step, j, i, cumulative, acc) ==
    IF j >= n - 1 THEN acc
    ELSE LET target == Add(offset, Mul(Num(j - 1, 1), step))
             at == Advance(ps, n, target, i, cumulative)
         IN ResampleExactLoop_OneShort(ps, n, offset, step, j + 1, at[1], at[2],
                Append(acc, Clone(ps[at[1] + 1], Div(One, Num(n - 1, 1)))))

RECURSIVE ResampleExactLoop(_, _, _, _, _, _, _, _)
ResampleExactLoop(ps, n, offset, step, j, i, cumulative, acc) ==
    IF j >= n THEN acc
    ELSE LET target == Add(offset, Mul(Num(j - 1, 1), step))
             at == Advance(ps, n, target, i, cumulative)
         IN ResampleExactLoop(ps, n, offset, step, j + 1, at[1], at[2],
                Append(acc, Clone(ps[at[1] + 1], Div(One, Num(n - 1, 1)))))

RECURSIVE ResampleNormalLoop(_, _, _, _, _, _, _, _)
ResampleNormalLoop(ps, n, offset, step, j, i, cumulative, acc) ==
    IF j >= n THEN acc
    ELSE LET target == Add(offset, Mul(Num(j, 1), step))
             at == Advance(ps, n, target, i, cumulative)
         IN ResampleNormalLoop(ps, n, offset, step, j + 1, at[1], at[2],
                Append(acc, Clone(ps[at[1] + 1], Div(One, Num(n, 1)))))

\* Line 1106 reads this.particles[1].weight: a TypeError when there is no
\* second particle.
ResampleThrows(ps, exact) == exact # None /\ Len(ps) < 2

resampleParticles(ps, exact, n, random) ==
    IF exact # None
    THEN LET step == Div(One, Num(n - 1, 1))
             offset == Mul(random, step)
         IN ResampleExactLoop(ps, n, offset, step, 1, 1, ps[2].weight,
                              << ps[1] >>)
    ELSE LET step == Div(One, Num(n, 1))
             offset == Mul(random, step)
         IN ResampleNormalLoop(ps, n, offset, step, 0, 0, ps[1].weight, << >>)

(***************************************************************************)
(* The direction test of update, lines 859-898.  dx, dy is the step from   *)
(* the last sample, vx, vy the velocity getState() returns, and the        *)
(* sample's speed is (mvx, mvy) = (dx, dy) / dt.  Both speeds are square   *)
(* roots: speed > 1 compares the squares, and cosAngle < 0.7 is            *)
(* dotProduct < 0.7 * speed * measurementSpeed, compared after squaring.   *)
(***************************************************************************)
directionChangeDetected(dx, dy, vx, vy, mvx, mvy) ==
    LET dotProduct == dx * vx + dy * vy
        speedSquared == vx * vx + vy * vy
        measurementSpeedSquared == mvx * mvx + mvy * mvy
    IN /\ speedSquared > 1
       /\ measurementSpeedSquared > 1
       /\ \/ dotProduct < 0
          \/ 100 * dotProduct * dotProduct
                < 49 * speedSquared * measurementSpeedSquared

\* Lines 887-895: with processNoise > 5 the velocities of the particles of
\* index i > numParticles * 0.2 (from 0) are overwritten.
OverwriteVelocities(ps, n, pn, mvx, mvy, noise) ==
    IF pn > 5
    THEN [k \in 1..Len(ps) |->
            IF k > 1 /\ k - 1 < n /\ 5 * (k - 1) > n
            THEN [ps[k] EXCEPT !.vx = mvx + noise[k].vx,
                               !.vy = mvy + noise[k].vy]
            ELSE ps[k]]
    ELSE ps

(***************************************************************************)
(* The constructor, lines 695-721, with the default initialState.          *)
(***************************************************************************)
Origin == [x |-> 0, y |-> 0, vx |-> 0, vy |-> 0]

\* options.initialState: the default, and a moving state elsewhere.
InitialStates == {Origin, [x |-> 2, y |-> 0, vx |-> 1, vy |-> 0]}

\* The defaults of options.minProcessNoise and options.maxProcessNoise.
DefaultMinProcessNoise == 1
DefaultMaxProcessNoise == 15

\* The constructor, lines 695-721, for the given options.
Constructed(n, pn, minPn, maxPn, initialState, noise) ==
    /\ numParticles = n
    /\ processNoise = pn
    /\ minProcessNoise = minPn
    /\ maxProcessNoise = maxPn
    /\ exactStateOverride = Some(initialState)
    /\ particles = initializeParticles(initialState, n, noise)
    /\ lastTimestamp = None
    /\ lastMeasurement = None
    /\ measurementHistory = << >>
    /\ samples = 0
    /\ pfLast = [op |-> "construct", resampled |-> FALSE, threw |-> FALSE]

PFInit ==
    \E n \in ParticleCounts, pn \in ProcessNoises, initialState \in InitialStates :
      \E noise \in [2..n -> Noises] :
        Constructed(n, pn, DefaultMinProcessNoise, DefaultMaxProcessNoise,
                    initialState, noise)

\* Options of the constructor over a wider range: processNoise outside the
\* default limits, and limits given in either order.
ConfiguredProcessNoises == {5, 20}
ConfiguredLimits == {<< 1, 15 >>, << 15, 1 >>, << 8, 10 >>}

PFOptionsInit ==
    \E n \in {1, 2}, pn \in ConfiguredProcessNoises, limits \in ConfiguredLimits :
      \E noise \in [2..n -> Noises] :
        Constructed(n, pn, limits[1], limits[2], Origin, noise)

\* No filter constructed.
NoFilter ==
    /\ numParticles = 0
    /\ processNoise = 0
    /\ minProcessNoise = 0
    /\ maxProcessNoise = 0
    /\ exactStateOverride = None
    /\ particles = << >>
    /\ lastTimestamp = None
    /\ lastMeasurement = None
    /\ measurementHistory = << >>
    /\ samples = 0
    /\ pfLast = [op |-> "none", resampled |-> FALSE, threw |-> FALSE]

(***************************************************************************)
(* update, lines 793-914, with useAdaptiveNoise off (the default).         *)
(***************************************************************************)
\* Mutant: the first sample is remembered and the state is left as it was.
FirstSample_KeepsInitialState(pos, currentTime, noise) ==
    /\ lastTimestamp' = Some(currentTime)
    /\ lastMeasurement' = Some(pos)
    /\ measurementHistory' =
          << [x |-> pos.x, y |-> pos.y, timestamp |-> currentTime] >>
    /\ samples' = samples + 1
    /\ pfLast' = [op |-> "first", resampled |-> FALSE, threw |-> FALSE]
    /\ UNCHANGED << numParticles, processNoise, minProcessNoise,
                    maxProcessNoise, exactStateOverride, particles >>

\* Lines 797-812: the first sample.
FirstSample(pos, currentTime, noise) ==
    LET state == [x |-> pos.x, y |-> pos.y, vx |-> 0, vy |-> 0]
    IN /\ exactStateOverride' = Some(state)
       /\ particles' = initializeParticles(state, numParticles, noise)
       /\ lastTimestamp' = Some(currentTime)
       /\ lastMeasurement' = Some(pos)
       /\ measurementHistory' =
             << [x |-> pos.x, y |-> pos.y, timestamp |-> currentTime] >>
       /\ samples' = samples + 1
       /\ pfLast' = [op |-> "first", resampled |-> FALSE, threw |-> FALSE]
       /\ UNCHANGED << numParticles, processNoise, minProcessNoise,
                    maxProcessNoise, minProcessNoise,
                       maxProcessNoise >>

\* Lines 826-830: dt < 0.001.
SkippedSample(currentTime) ==
    /\ lastTimestamp' = Some(currentTime)
    /\ samples' = samples + 1
    /\ pfLast' = [op |-> "skip", resampled |-> FALSE, threw |-> FALSE]
    /\ UNCHANGED << numParticles, processNoise, minProcessNoise,
                    maxProcessNoise, particles, lastMeasurement,
                    exactStateOverride, measurementHistory >>

\* Mutant: the step is divided by the elapsed milliseconds.
MeasuredVelocity_PerMillisecond(d, dtMs) == d \div dtMs

\* Lines 838-843: dx / dt with dt in seconds, for a step d over dtMs
\* milliseconds.
MeasuredVelocity(d, dtMs) == (d * 1000) \div dtMs

\* Lines 832-913.
NextSample(pos, currentTime, noise) ==
    LET dtMs == currentTime - lastTimestamp[1]
        override == exactStateOverride # None /\ lastMeasurement # None
        dx == IF lastMeasurement # None THEN pos.x - lastMeasurement[1].x ELSE 0
        dy == IF lastMeasurement # None THEN pos.y - lastMeasurement[1].y ELSE 0
        mvx == MeasuredVelocity(dx, dtMs)
        mvy == MeasuredVelocity(dy, dtMs)
        exact == IF override
                 THEN Some([x |-> pos.x, y |-> pos.y, vx |-> mvx, vy |-> mvy])
                 ELSE exactStateOverride
        ps1 == IF override
               THEN [particles EXCEPT ![1] =
                       [x |-> pos.x, y |-> pos.y, vx |-> mvx, vy |-> mvy,
                        weight |-> Num(1, 5)]]
               ELSE particles
        state == getState(exact)
        changed == /\ lastMeasurement # None
                   /\ directionChangeDetected(dx, dy, state.vx, state.vy,
                                              mvx, mvy)
        draws == IF changed /\ processNoise > 5
                 THEN [2..numParticles -> Noises]
                 ELSE {noise}
    IN \E velocityNoise \in draws :
         LET ps2 == IF changed
                    THEN OverwriteVelocities(ps1, numParticles, processNoise,
                                             mvx, mvy, velocityNoise)
                    ELSE ps1
             ps3 == propagateParticles(ps2, dtMs, noise)
             ps4 == updateWeights(ps3, exact, pos)
             resample ==
                 \/ changed
                 \/ Less(getEffectiveParticleCount(ps4),
                         Mul(Num(numParticles, 1), resampleThreshold))
         IN /\ lastTimestamp' = Some(currentTime)
            /\ samples' = samples + 1
            /\ exactStateOverride' = exact
            /\ UNCHANGED << numParticles, processNoise, minProcessNoise,
                    maxProcessNoise, measurementHistory >>
            /\ IF resample /\ ResampleThrows(ps4, exact)
               THEN /\ particles' = ps4
                    /\ UNCHANGED lastMeasurement
                    /\ pfLast' = [op |-> "update", resampled |-> FALSE,
                                  threw |-> TRUE]
               ELSE /\ IF resample
                       THEN \E random \in Randoms :
                              particles' = resampleParticles(ps4, exact,
                                               numParticles, random)
                       ELSE particles' = ps4
                    /\ lastMeasurement' = Some(pos)
                    /\ pfLast' = [op |-> "update", resampled |-> resample,
                                  threw |-> FALSE]

\* Timestamps are whole milliseconds, so dt < 0.001 is an elapsed time of
\* zero or less.
UpdateWith(pos, currentTime) ==
    IF lastTimestamp = None
    THEN \E noise \in [2..numParticles -> Noises] :
            FirstSample(pos, currentTime, noise)
    ELSE IF currentTime - lastTimestamp[1] < 1
         THEN SkippedSample(currentTime)
         ELSE \E noise \in [2..numParticles -> Noises] :
                 NextSample(pos, currentTime, noise)

update ==
    \E currentTime \in Stamps, pos \in Positions :
       /\ samples < MaxSamples
       /\ UpdateWith(pos, currentTime)

(***************************************************************************)
(* reset, lines 1290-1314.  With useAdaptiveNoise off processNoise is      *)
(* still baseProcessNoise.                                                 *)
(***************************************************************************)
\* The argument of reset: none, or a state whose vx and vy may be missing.
ResetArgs ==
    {None}
      \cup {Some([x |-> pos.x, y |-> pos.y, vx |-> None, vy |-> None]) :
               pos \in Positions}
      \cup {Some([x |-> 2, y |-> 2, vx |-> Some(1), vy |-> Some(2)]),
            Some([x |-> 0, y |-> 2, vx |-> Some(1), vy |-> None])}

\* Mutant: the velocity of the argument is not taken over.
ResetState_DropsVelocity(arg) ==
    IF arg # None
    THEN [x |-> arg[1].x, y |-> arg[1].y, vx |-> 0, vy |-> 0]
    ELSE Origin

\* Lines 1299-1313: the state the filter is reset to.
ResetState(arg) ==
    IF arg # None
    THEN [x |-> arg[1].x, y |-> arg[1].y,
          vx |-> IF arg[1].vx # None THEN arg[1].vx[1] ELSE 0,
          vy |-> IF arg[1].vy # None THEN arg[1].vy[1] ELSE 0]
    ELSE Origin

ResetWith(arg, noise) ==
    LET state == ResetState(arg)
    IN /\ lastTimestamp' = None
       /\ lastMeasurement' = None
       /\ measurementHistory' = << >>
       /\ samples' = 0
       /\ exactStateOverride' = Some(state)
       /\ particles' = initializeParticles(state, numParticles, noise)
       /\ pfLast' = [op |-> "reset", resampled |-> FALSE, threw |-> FALSE,
                     arg |-> arg, after |-> samples]
       /\ UNCHANGED << numParticles, processNoise, minProcessNoise,
                       maxProcessNoise >>

reset ==
    \E arg \in ResetArgs :
      \E noise \in [2..numParticles -> Noises] : ResetWith(arg, noise)

(***************************************************************************)
(* predict, lines 1166-1202, and getEstimate, lines 1207-1226.  A          *)
(* coordinate is returned as a fraction << n, d >> that is not reduced.    *)
(***************************************************************************)
\* The loops of lines 1184-1195, 1219-1222 and 1252-1258: the sum over the
\* particles from index from on of weight times the component c, added to
\* the fraction acc.
RECURSIVE WeightedSum(_, _, _, _)
WeightedSum(ps, c, from, acc) ==
    IF from > Len(ps) THEN acc
    ELSE LET w == ps[from].weight
         IN WeightedSum(ps, c, from + 1,
                        << acc[1] * w[2] + ps[from][c] * w[1] * acc[2],
                           acc[2] * w[2] >>)

Horizons == {0 - 500, 0, 500}

getEstimate(exact, ps) ==
    IF exact # None
    THEN [x |-> << exact[1].x, 1 >>, y |-> << exact[1].y, 1 >>]
    ELSE [x |-> WeightedSum(ps, "x", 1, << 0, 1 >>),
          y |-> WeightedSum(ps, "y", 1, << 0, 1 >>)]

\* sum of (p + v * timeAhead / 1000) * weight
Extrapolated(ps, p, v, timeAhead) ==
    LET sp == WeightedSum(ps, p, 1, << 0, 1 >>)
        sv == WeightedSum(ps, v, 1, << 0, 1 >>)
    IN << sp[1] * sv[2] * 1000 + sv[1] * timeAhead * sp[2],
          sp[2] * sv[2] * 1000 >>

predict(exact, ps, timeAhead) ==
    IF exact # None
    THEN [x |-> << exact[1].x * 1000 + exact[1].vx * timeAhead, 1000 >>,
          y |-> << exact[1].y * 1000 + exact[1].vy * timeAhead, 1000 >>]
    ELSE IF timeAhead <= 0 THEN getEstimate(exact, ps)
    ELSE [x |-> Extrapolated(ps, "x", "vx", timeAhead),
          y |-> Extrapolated(ps, "y", "vy", timeAhead)]

\* getNoiseParameters, lines 1279-1284 (measurementNoise is not modelled).
getNoiseParameters == [processNoise |-> processNoise]

\* getParticles, lines 1271-1273.
getParticles ==
    [i \in 1..Len(particles) |->
        [x |-> particles[i].x, y |-> particles[i].y,
         weight |-> particles[i].weight]]

(***************************************************************************)
(* Part III: class Quadtree                                                *)
(* (src/src/hooks/__tests__/useCursorPredictor.test.tsx, lines 244-607).   *)
(*                                                                         *)
(* A node is a record: bounds, capacity, maxDepth, depth, items (in push   *)
(* order), divided, and children, which is << >> while northWest ..        *)
(* southEast are null and << northWest, northEast, southWest, southEast >> *)
(* once subdivided.                                                        *)
(* Coordinates are integers; the root is a square whose side is a power    *)
(* of two, so that halving is exact down to the deepest node built.        *)
(***************************************************************************)
\* The defaults of the constructor, and the options of the tree of QuadSpec.
DefaultCapacity == 4
DefaultMaxDepth == 5

capacity == 1
maxDepth == 2

\* The nested insert calls the call stack has room for: one more throws a
\* RangeError.
StackFrames == 4

Rect(x, y, w, h) == [x |-> x, y |-> y, width |-> w, height |-> h]

Point(x, y) == [x |-> x, y |-> y]

RootBounds == Rect(0, 0, 16, 16)

\* The elements, and what getBoundingClientRect can return for one.
Elements == {1, 2, 3}

ClientRects == { Rect(1, 1, 2, 2), Rect(9, 1, 2, 2), Rect(7, 1, 2, 2),
                 Rect(1, 9, 2, 2), Rect(9, 9, 2, 2), Rect(20, 20, 1, 1) }

\* The end points of the segments queried.
QueryPoints == { Point(9, 0), Point(9, 3), Point(0, 2), Point(15, 2),
                 Point(2, 10), Point(10, 12) }

VARIABLES
    tree,      \* the root Quadtree
    stored,    \* history: the items whose insert returned true since the
               \*          tree was built or cleared
    qtLast     \* history: what the latest call did

qtVars == << tree, stored, qtLast >>

\* new Quadtree(bounds, capacity, maxDepth, depth), lines 264-269.
NewQuadtree(bounds, cap, maxD, depth) ==
    [bounds |-> bounds, capacity |-> cap, maxDepth |-> maxD, depth |-> depth,
     items |-> << >>, divided |-> FALSE, children |-> << >>]

\* intersects, lines 494-501.
intersects(rectA, rectB) ==
    ~ \/ rectA.x + rectA.width < rectB.x
      \/ rectB.x + rectB.width < rectA.x
      \/ rectA.y + rectA.height < rectB.y
      \/ rectB.y + rectB.height < rectA.y

\* The four quadrants built by subdivide, lines 322-331.
Quadrants(node) ==
    LET x == node.bounds.x
        y == node.bounds.y
        w == node.bounds.width \div 2
        h == node.bounds.height \div 2
        nextDepth == node.depth + 1
    IN << NewQuadtree(Rect(x, y, w, h), node.capacity, node.maxDepth,
                      nextDepth),
          NewQuadtree(Rect(x + w, y, w, h), node.capacity, node.maxDepth,
                      nextDepth),
          NewQuadtree(Rect(x, y + h, w, h), node.capacity, node.maxDepth,
                      nextDepth),
          NewQuadtree(Rect(x + w, y + h, w, h), node.capacity, node.maxDepth,
                      nextDepth) >>

(***************************************************************************)
(* insert, lines 276-316, and subdivide, lines 321-342.  The result is the *)
(* node after the call, the value returned, and whether the call threw.    *)
(***************************************************************************)
RECURSIVE insert(_, _)
RECURSIVE insertIntoChildren(_, _, _)
RECURSIVE moveItems(_, _)

Returned(node, ok) == [node |-> node, ok |-> ok, threw |-> FALSE]

Thrown(node) == [node |-> node, ok |-> FALSE, threw |-> TRUE]

\* Lines 305-308: the children in order, up to the first that accepts.
insertIntoChildren(node, item, k) ==
    IF k > 4 THEN Returned(node, FALSE)
    ELSE LET r == insert(node.children[k], item)
             after == [node EXCEPT !.children[k] = r.node]
         IN IF r.threw THEN Thrown(after)
            ELSE IF r.ok THEN Returned(after, TRUE)
            ELSE insertIntoChildren(after, item, k + 1)

\* Lines 334-341: the items of the node, from the k-th on, are offered to
\* the children; they also stay in this.items.
moveItems(node, k) ==
    IF k > Len(node.items) THEN Returned(node, TRUE)
    ELSE LET r == insertIntoChildren(node, node.items[k], 1)
         IN IF r.threw THEN r ELSE moveItems(r.node, k + 1)

subdivide(node) ==
    moveItems([node EXCEPT !.children = Quadrants(node), !.divided = TRUE], 1)

insert(node, item) ==
    IF node.depth >= StackFrames THEN Thrown(node)
    ELSE IF ~intersects(item.bounds, node.bounds) THEN Returned(node, FALSE)
    ELSE IF /\ Len(node.items) < node.capacity
            /\ ~node.divided
            /\ node.depth < node.maxDepth
    THEN Returned([node EXCEPT !.items = Append(@, item)], TRUE)
    ELSE LET sub == IF ~node.divided THEN subdivide(node)
                                     ELSE Returned(node, TRUE)
         IN IF sub.threw THEN sub
            ELSE LET r == insertIntoChildren(sub.node, item, 1)
                 IN IF r.threw \/ r.ok THEN r
                    ELSE IF node.depth < node.maxDepth
                    THEN Returned([r.node EXCEPT !.items = Append(@, item)],
                                  TRUE)
                    ELSE Returned(r.node, FALSE)

(***************************************************************************)
(* The geometric tests, lines 437-471 and 506-592.                         *)
(***************************************************************************)
Max(a, b) == IF a > b THEN a ELSE b

\* pointInRect, lines 563-573.
pointInRect(point, rect) ==
    /\ point.x >= rect.x
    /\ point.x <= rect.x + rect.width
    /\ point.y >= rect.y
    /\ point.y <= rect.y + rect.height

\* 0 <= n / d <= 1, for d # 0
InUnitInterval(n, d) ==
    IF d > 0 THEN 0 <= n /\ n <= d ELSE d <= n /\ n <= 0

\* lineIntersectsLine, lines 578-594.
lineIntersectsLine(a, b, c, d) ==
    LET denominator == (d.y - c.y) * (b.x - a.x) - (d.x - c.x) * (b.y - a.y)
        uaNumerator == (d.x - c.x) * (a.y - c.y) - (d.y - c.y) * (a.x - c.x)
        ubNumerator == (b.x - a.x) * (a.y - c.y) - (b.y - a.y) * (a.x - c.x)
    IN IF denominator = 0 THEN FALSE
       ELSE /\ InUnitInterval(uaNumerator, denominator)
            /\ InUnitInterval(ubNumerator, denominator)

\* Mutant: the segment is replaced by its bounding box.
lineIntersectsRect_BoundingBox(start, end, rect) ==
    /\ Max(start.x, end.x) >= rect.x
    /\ Min(start.x, end.x) <= rect.x + rect.width
    /\ Max(start.y, end.y) >= rect.y
    /\ Min(start.y, end.y) <= rect.y + rect.height

\* lineIntersectsRect, lines 506-558.
lineIntersectsRect(start, end, rect) ==
    IF pointInRect(start, rect) \/ pointInRect(end, rect) THEN TRUE
    ELSE IF start.x = end.x
    THEN /\ start.x >= rect.x
         /\ start.x <= rect.x + rect.width
         /\ Max(start.y, end.y) >= rect.y
         /\ Min(start.y, end.y) <= rect.y + rect.height
    ELSE IF start.y = end.y
    THEN /\ start.y >= rect.y
         /\ start.y <= rect.y + rect.height
         /\ Max(start.x, end.x) >= rect.x
         /\ Min(start.x, end.x) <= rect.x + rect.width
    ELSE LET rectPoints ==
                 << Point(rect.x, rect.y),
                    Point(rect.x + rect.width, rect.y),
                    Point(rect.x + rect.width, rect.y + rect.height),
                    Point(rect.x, rect.y + rect.height) >>
         IN \E i \in 0..3 :
               lineIntersectsLine(start, end, rectPoints[i + 1],
                                  rectPoints[((i + 1) % 4) + 1])

\* exactLineIntersectsRect, lines 437-471.
exactLineIntersectsRect(start, end, rect) ==
    IF start.y = end.y
    THEN /\ start.y >= rect.y
         /\ start.y <= rect.y + rect.height
         /\ ~ \/ Max(start.x, end.x) < rect.x
              \/ Min(start.x, end.x) > rect.x + rect.width
    ELSE IF start.x = end.x
    THEN /\ start.x >= rect.x
         /\ start.x <= rect.x + rect.width
         /\ ~ \/ Max(start.y, end.y) < rect.y
              \/ Min(start.y, end.y) > rect.y + rect.height
    ELSE FALSE

(***************************************************************************)
(* queryLine, lines 350-390, and queryExactLine, lines 395-432.  The       *)
(* result is the array returned, in order.                                 *)
(***************************************************************************)
\* Mutant: the array is returned as it came.
removeDuplicates_KeepsAll(elements) == elements

\* removeDuplicates, lines 476-489.
RECURSIVE removeDuplicates(_)
removeDuplicates(elements) ==
    IF elements = << >> THEN << >>
    ELSE LET front == removeDuplicates(SubSeq(elements, 1, Len(elements) - 1))
             element == elements[Len(elements)]
         IN IF element \in Range(front) THEN front ELSE Append(front, element)

\* a || 1
OrOne(a) == IF a = 0 THEN 1 ELSE a

LineBounds(start, end) ==
    Rect(Min(start.x, end.x), Min(start.y, end.y),
         Max(start.x, end.x) - Min(start.x, end.x),
         Max(start.y, end.y) - Min(start.y, end.y))

ExactLineBounds(start, end) ==
    Rect(Min(start.x, end.x), Min(start.y, end.y),
         OrOne(Max(start.x, end.x) - Min(start.x, end.x)),
         OrOne(Max(start.y, end.y) - Min(start.y, end.y)))

\* The elements of the items of the node that pass the test, in order.
RECURSIVE ItemsHit(_, _, _, _)
ItemsHit(items, start, end, exact) ==
    IF items = << >> THEN << >>
    ELSE LET item == Head(items)
             hit == IF exact
                    THEN exactLineIntersectsRect(start, end, item.bounds)
                    ELSE lineIntersectsRect(start, end, item.bounds)
         IN (IF hit THEN << item.element >> ELSE << >>)
               \o ItemsHit(Tail(items), start, end, exact)

RECURSIVE queryExactLine(_, _, _)
queryExactLine(node, start, end) ==
    IF ~intersects(ExactLineBounds(start, end), node.bounds) THEN << >>
    ELSE LET own == ItemsHit(node.items, start, end, TRUE)
             below == IF node.divided
                      THEN queryExactLine(node.children[1], start, end)
                           \o queryExactLine(node.children[2], start, end)
                           \o queryExactLine(node.children[3], start, end)
                           \o queryExactLine(node.children[4], start, end)
                      ELSE << >>
         IN removeDuplicates(own \o below)

RECURSIVE queryLine(_, _, _)
queryLine(node, start, end) ==
    IF start.x = end.x \/ start.y = end.y
    THEN queryExactLine(node, start, end)
    ELSE IF ~intersects(LineBounds(start, end), node.bounds) THEN << >>
    ELSE LET own == ItemsHit(node.items, start, end, FALSE)
             below == IF node.divided
                      THEN queryLine(node.children[1], start, end)
                           \o queryLine(node.children[2], start, end)
                           \o queryLine(node.children[3], start, end)
                           \o queryLine(node.children[4], start, end)
                      ELSE << >>
         IN removeDuplicates(own \o below)

\* Mutant: clear empties the item list and keeps the subdivision.
Cleared_KeepsChildren(node) ==
    [node EXCEPT !.items = << >>]

\* clear, lines 599-606.
Cleared(node) ==
    [node EXCEPT !.items = << >>, !.divided = FALSE, !.children = << >>]

(***************************************************************************)
(* The calls on one tree.  An element is inserted once between two clears. *)
(***************************************************************************)
QuadInit ==
    /\ tree = NewQuadtree(RootBounds, capacity, maxDepth, 0)
    /\ stored = {}
    /\ qtLast = [op |-> "new"]

NoQuadtree ==
    /\ tree = << >>
    /\ stored = {}
    /\ qtLast = [op |-> "none"]

QuadInsert ==
    \E element \in Elements \ {i.element : i \in stored}, rect \in ClientRects :
       LET item == [element |-> element, bounds |-> rect]
           r == insert(tree, item)
       IN /\ tree' = r.node
          /\ stored' = IF r.ok THEN stored \cup {item} ELSE stored
          /\ qtLast' = [op |-> IF r.threw THEN "throw" ELSE "insert",
                        ok |-> r.ok, element |-> element]

QuadClear ==
    /\ tree' = Cleared(tree)
    /\ stored' = {}
    /\ qtLast' = [op |-> "clear", divided |-> tree.divided,
                  held |-> Cardinality(stored)]

(***************************************************************************)
(* Part IV.  The index of the scheduler: usePreloadOnPrediction keeps one  *)
(* Quadtree of the links of the document in quadtreeRef and builds a new   *)
(* one when the MutationObserver or the resize listener calls back.        *)
(***************************************************************************)
LinkIds == {1, 2}
LinkRects == {Rect(1, 1, 2, 2), Rect(5, 5, 2, 2)}
Viewports == {Rect(0, 0, 16, 16), Rect(0, 0, 4, 4)}
CursorPaths == {<< Point(0, 2), Point(15, 2) >>, << Point(0, 0), Point(8, 8) >>}

VARIABLES
    document,       \* link -> None, or Some of its client rect and whether
                    \* its href starts with '/'
    window,         \* the viewport: Rect(0, 0, innerWidth, innerHeight)
    isTracking,     \* state of useCursorPredictor
    quadtreeRef,    \* None (null), or Some tree
    ixLast          \* the last step, and what a cycle found

ixVars == << document, window, isTracking, quadtreeRef, ixLast >>

\* document.querySelectorAll('a[href]') filtered on href, in document order,
\* lines 329-331.
RECURSIVE LinksFrom(_, _)
LinksFrom(doc, l) ==
    IF l \notin LinkIds THEN << >>
    ELSE IF doc[l] # None /\ doc[l][1].internal
    THEN << [element |-> l, bounds |-> doc[l][1].bounds] >> \o LinksFrom(doc, l + 1)
    ELSE LinksFrom(doc, l + 1)

\* The loop of lines 333-335; an insert that throws ends it.
RECURSIVE InsertLinks(_, _)
InsertLinks(quadtree, items) ==
    IF items = << >> THEN [tree |-> quadtree, threw |-> FALSE]
    ELSE LET r == insert(quadtree, Head(items))
         IN IF r.threw THEN [tree |-> r.node, threw |-> TRUE]
            ELSE InsertLinks(r.node, Tail(items))

\* buildQuadtree, lines 317-338.
buildQuadtree(doc, win) ==
    InsertLinks(NewQuadtree(win, DefaultCapacity, DefaultMaxDepth, 0),
                LinksFrom(doc, 1))

\* quadtreeRef.current = buildQuadtree(), lines 344, 361, 386: the ref keeps
\* its value when buildQuadtree throws.
Rebuilt(doc, win, ref) ==
    LET b == buildQuadtree(doc, win)
    IN IF b.threw THEN ref ELSE Some(b.tree)

\* The callback of the MutationObserver, lines 347-363, for one record of
\* the given type and attribute name; the observer is connected while
\* isTracking.
ObserverCallback(doc, type, attributeName) ==
    IF /\ isTracking
       /\ \/ type = "childList"
          \/ type = "attributes" /\ attributeName = "href"
    THEN Rebuilt(doc, window, quadtreeRef)
    ELSE quadtreeRef

IxInit ==
    /\ document = [l \in LinkIds |-> None]
    /\ window \in {Rect(0, 0, 16, 16)}
    /\ isTracking = FALSE
    /\ quadtreeRef = None
    /\ ixLast = [op |-> "mount"]

\* startTracking, and the effect of lines 341-345 that follows.
startTracking ==
    /\ ~isTracking
    /\ isTracking' = TRUE
    /\ quadtreeRef' = Rebuilt(document, window, quadtreeRef)
    /\ ixLast' = [op |-> "start"]
    /\ UNCHANGED << document, window >>

\* stopTracking, and the cleanup of lines 375-378 that follows.
stopTracking ==
    /\ isTracking
    /\ isTracking' = FALSE
    /\ quadtreeRef' = None
    /\ ixLast' = [op |-> "stop"]
    /\ UNCHANGED << document, window >>

\* A link is added to the document: a childList record.
AddLink ==
    \E l \in LinkIds, rect \in LinkRects, internal \in BOOLEAN :
       /\ document[l] = None
       /\ document' = [document EXCEPT
                          ![l] = Some([bounds |-> rect, internal |-> internal])]
       /\ quadtreeRef' = ObserverCallback(document', "childList", "")
       /\ ixLast' = [op |-> "add"]
       /\ UNCHANGED << window, isTracking >>

\* A link is removed from the document: a childList record.
RemoveLink ==
    \E l \in LinkIds :
       /\ document[l] # None
       /\ document' = [document EXCEPT ![l] = None]
       /\ quadtreeRef' = ObserverCallback(document', "childList", "")
       /\ ixLast' = [op |-> "remove"]
       /\ UNCHANGED << window, isTracking >>

\* The href of a link changes: an attributes record named href.
SetHref ==
    \E l \in LinkIds :
       /\ document[l] # None
       /\ document' = [document EXCEPT ![l] = Some([@[1] EXCEPT !.internal = ~@])]
       /\ quadtreeRef' = ObserverCallback(document', "attributes", "href")
       /\ ixLast' = [op |-> "href"]
       /\ UNCHANGED << window, isTracking >>

\* A link moves (layout, style, class or scroll position change): the
\* observer of lines 366-371 is given no record for it (attributeFilter is
\* ['href']), and no other listener of the hook runs.
MoveLink ==
    \E l \in LinkIds, rect \in LinkRects :
       /\ document[l] # None
       /\ document[l][1].bounds # rect
       /\ document' = [document EXCEPT ![l] = Some([@[1] EXCEPT !.bounds = rect])]
       /\ ixLast' = [op |-> "move"]
       /\ UNCHANGED << window, isTracking, quadtreeRef >>

\* handleResize, lines 384-388.
handleResize ==
    \E win \in Viewports \ {window} :
       /\ window' = win
       /\ quadtreeRef' = IF isTracking THEN Rebuilt(document, win, quadtreeRef)
                                       ELSE quadtreeRef
       /\ ixLast' = [op |-> "resize"]
       /\ UNCHANGED << document, isTracking >>

\* The head of checkPotentialTargets, lines 460-466: the index is consulted
\* for the segment from the position to the predicted position.
ConsultIndex ==
    \E path \in CursorPaths :
       /\ quadtreeRef # None
       /\ ixLast' = [op |-> "cycle",
                     found |-> Range(queryLine(quadtreeRef[1], path[1], path[2]))]
       /\ UNCHANGED << document, window, isTracking, quadtreeRef >>

(***************************************************************************)
(* Part V.  Runs of the filter tests: a filter is fed a fixed list of      *)
(* samples; for the comparison of two filters the second one is            *)
(* constructed and fed the same list after the first.                      *)
(***************************************************************************)
Sample(x, y, timestamp) == [pos |-> [x |-> x, y |-> y], timestamp |-> timestamp]

\* Constant speed along y = 0: 2 units every 500 ms, 4 units a second.
StraightLine ==
    << Sample(0, 0, 1000), Sample(2, 0, 1500), Sample(4, 0, 2000),
       Sample(6, 0, 2500) >>
StraightLineSpeed == 4

\* The same straight line, then a turn of 90 degrees at the same speed.
Turn ==
    << Sample(0, 0, 1000), Sample(2, 0, 1500), Sample(4, 0, 2000),
       Sample(4, 2, 2500), Sample(4, 4, 3000) >>

Scripts == {StraightLine, Turn}

\* processNoise of the two filters of the comparison.
LowNoise == 1
HighNoise == 10

VARIABLES
    run     \* the list fed, the state the first filter ended in (None while
            \* it runs), and whether an update has thrown

runVars == << run >>

NoRun == run = [script |-> << >>, first |-> None, threw |-> FALSE]

RunInit ==
    \E script \in Scripts, n \in ParticleCounts :
      \E noise \in [2..n -> Noises] :
        /\ Constructed(n, LowNoise, DefaultMinProcessNoise,
                       DefaultMaxProcessNoise, Origin, noise)
        /\ run = [script |-> script, first |-> None, threw |-> FALSE]

\* filter.update(sample) for the next sample of the list.
Feed ==
    /\ samples < Len(run.script)
    /\ UpdateWith(run.script[samples + 1].pos, run.script[samples + 1].timestamp)
    /\ run' = [run EXCEPT !.threw = @ \/ pfLast'.threw]

\* The first filter has been fed the list and its getState() is read; the
\* second filter, with the higher processNoise, is constructed.
ConstructSecond ==
    /\ samples = Len(run.script)
    /\ run.first = None
    /\ run' = [run EXCEPT !.first = Some(getState(exactStateOverride))]
    /\ \E noise \in [2..numParticles -> Noises] :
          /\ processNoise' = HighNoise
          /\ exactStateOverride' = Some(Origin)
          /\ particles' = initializeParticles(Origin, numParticles, noise)
          /\ lastTimestamp' = None
          /\ lastMeasurement' = None
          /\ measurementHistory' = << >>
          /\ samples' = 0
          /\ pfLast' = [op |-> "construct", resampled |-> FALSE, threw |-> FALSE]
          /\ UNCHANGED << numParticles, minProcessNoise, maxProcessNoise >>

(***************************************************************************)
(* Part VI.  calculateHitProbability, lines 180-275.                       *)
(*                                                                         *)
(* The rectangles have even sides and integer corners, the cursor          *)
(* positions are integers, and the movement vectors have an integer        *)
(* length D: every quantity of the code is then a multiple of 1 / D, kept  *)
(* as its numerator, and the square roots are those of ISqrt.  A returned  *)
(* number is a fraction << n, d >> with d > 0 that is not reduced, or      *)
(* Infinity.                                                               *)
(***************************************************************************)
\* The greatest r in low..high with r * r <= n, by bisection.
RECURSIVE ISqrtBetween(_, _, _)
ISqrtBetween(n, low, high) ==
    IF low >= high THEN low
    ELSE LET mid == (low + high + 1) \div 2
         IN IF mid * mid <= n THEN ISqrtBetween(n, mid, high)
                              ELSE ISqrtBetween(n, low, mid - 1)

\* Math.sqrt, rounded down to an integer, for 0 <= n < 2^30.
ISqrt(n) == ISqrtBetween(n, 0, 32767)

\* Inputs: client rects of the element, cursor positions, movements to
\* the predicted position (of integer length) and horizons in ms.
HitRects ==
    { Rect(18, 0 - 2, 4, 4), Rect(38, 0 - 2, 4, 4), Rect(8, 0 - 2, 4, 4),
      Rect(18, 2, 4, 4), Rect(0 - 22, 0 - 2, 4, 4), Rect(58, 0 - 2, 4, 4),
      Rect(0 - 20, 0 - 40, 80, 80), Rect(0, 0 - 40, 80, 80),
      Rect(16, 27, 4, 4), Rect(10, 14, 4, 4), Rect(19, 0 - 2, 2, 10),
      Rect(20, 0 - 1, 0, 2), Rect(13, 18, 4, 4),
      Rect(0 - 10, 0 - 30, 60, 60) }
HitPositions == {Point(0, 0), Point(2, 0)}
HitMovements == {Point(40, 0), Point(0, 0), Point(0 - 40, 0), Point(30, 40),
                 Point(0, 20)}
HorizonTimes == {500, 0, 0 - 500}

\* Mutant: the probability is not limited to 1.
ClampProbability_NoUpperLimit(n, d) ==
    IF n < 0 THEN << 0, d >> ELSE << n, d >>

\* Line 270: Math.max(0, Math.min(1, n / d)), for d > 0.
ClampProbability(n, d) ==
    IF n < 0 THEN << 0, d >>
    ELSE IF n > d THEN << d, d >>
    ELSE << n, d >>

\* Mutant: the factor grows with the distance.
DistanceFactor_Farther(intersectionDistanceAlongRay, movementDistanceSquared) ==
    Min(intersectionDistanceAlongRay, movementDistanceSquared)

\* Line 261: 1 - Math.min(intersectionDistanceAlongRay / movementDistance, 1),
\* as a numerator over the square of movementDistance.
DistanceFactor(intersectionDistanceAlongRay, movementDistanceSquared) ==
    movementDistanceSquared
        - Min(intersectionDistanceAlongRay, movementDistanceSquared)

\* Line 241.
IsAhead(dotProduct) == dotProduct > 0

calculateHitProbability(rect, currentPosition, predictedPosition, horizonTime) ==
    LET \* the rect's sides are even, so the halves below are exact
        elementCenter == [x |-> rect.x + rect.width \div 2,
                          y |-> rect.y + rect.height \div 2]
        movementVector == [x |-> predictedPosition.x - currentPosition.x,
                           y |-> predictedPosition.y - currentPosition.y]
        toElementVector == [x |-> elementCenter.x - currentPosition.x,
                            y |-> elementCenter.y - currentPosition.y]
        movementDistance ==
            ISqrt(movementVector.x * movementVector.x
                    + movementVector.y * movementVector.y)
        D == movementDistance
        elementDistanceSquared ==
            toElementVector.x * toElementVector.x
              + toElementVector.y * toElementVector.y
        \* the quantities below are numerators over D
        dotProduct == toElementVector.x * movementVector.x
                        + toElementVector.y * movementVector.y
        closestDistance ==
            ISqrt(Max(0, elementDistanceSquared * D * D - dotProduct * dotProduct))
        elementSize == Min(rect.width, rect.height)
        effectiveRadius == (elementSize \div 2) * D
        isOnPath == closestDistance <= effectiveRadius
        isAhead == IsAhead(dotProduct)
        intersectionDistanceAlongRay ==
            dotProduct - ISqrt(effectiveRadius * effectiveRadius
                                 - closestDistance * closestDistance)
        \* (intersectionDistanceAlongRay / movementDistance) * horizonTime
        timeToReach == << intersectionDistanceAlongRay * horizonTime, D * D >>
        isReachable == timeToReach[1] <= horizonTime * timeToReach[2]
        distanceFactor == DistanceFactor(intersectionDistanceAlongRay, D * D)
        \* 1 - closestDistance / (effectiveRadius + 50), over
        \* effectiveRadius + 50 D
        directionDenominator == effectiveRadius + 50 * D
        directionFactor == directionDenominator - closestDistance
    IN IF movementDistance = 0
       THEN [probability |-> << 0, 1 >>, timeToReach |-> Infinity]
       ELSE IF ~(isOnPath /\ isAhead)
       THEN [probability |-> << 0, 1 >>, timeToReach |-> Infinity]
       ELSE IF ~isReachable
       THEN [probability |-> << 0, 1 >>, timeToReach |-> timeToReach]
       ELSE [probability |->
                ClampProbability(
                    4 * distanceFactor * directionDenominator
                      + 6 * directionFactor * D * D,
                    10 * D * D * directionDenominator),
             timeToReach |-> timeToReach]

VARIABLES
    hit     \* the arguments of the latest call and what it returned

hitVars == << hit >>

NoHit == hit = [op |-> "none"]

Score ==
    \E rect \in HitRects, currentPosition \in HitPositions,
       movement \in HitMovements, horizonTime \in HorizonTimes :
       LET predictedPosition == Point(currentPosition.x + movement.x,
                                      currentPosition.y + movement.y)
       IN
       hit' = [op |-> "score", rect |-> rect,
               currentPosition |-> currentPosition,
               predictedPosition |-> predictedPosition,
               horizonTime |-> horizonTime,
               result |-> calculateHitProbability(rect, currentPosition,
                              predictedPosition, horizonTime)]

(***************************************************************************)
(* Part VII.  The sample history of the trackers: useMouseTracker and      *)
(* useCursorPredictor.  Both keep the accepted samples in historyRef and   *)
(* in the state history; useCursorPredictor also feeds its ParticleFilter. *)
(***************************************************************************)
MaxMoves == 3

Hooks == {"useMouseTracker", "useCursorPredictor"}

\* options?.maxHistoryLength: absent, or a number.
HistoryOptions == {None, Some(0), Some(1), Some(2)}

\* options?.maxHistoryLength || 20 in useMouseTracker, ?? 20 in
\* useCursorPredictor: the first replaces 0 too.
DefaultMaxHistoryLength == 20
MaxHistoryLengthOf(h, option) ==
    IF option = None THEN DefaultMaxHistoryLength
    ELSE IF h = "useMouseTracker" /\ option[1] = 0 THEN DefaultMaxHistoryLength
    ELSE option[1]

\* The default sampleRate of each hook, in ms.
SampleRateOf(h) == IF h = "useMouseTracker" THEN 50 ELSE 16

\* The default predictionHorizon of useCursorPredictor, in ms.
predictionHorizon == 300

\* The filter options of useCursorPredictor: the default processNoise, and
\* numParticles.
HookProcessNoise == 5
HookParticleCounts == {1, 2}

\* Where the pointer is at a mousemove, what Date.now() is when the hook
\* mounts, and by how much it has advanced at the next event: not at all,
\* or by more than either sampleRate.
MousePoints == {Point(0, 0), Point(2, 0)}
MountTime == 1000
ClockSteps == {0, 500}

\* Mutant: the oldest samples are kept.
SliceFrom_Oldest(seq, start) ==
    SubSeq(seq, 1, Min(Len(seq), 0 - start))

\* Array.prototype.slice(start): a negative start counts from the end, and
\* -0 is 0.
SliceFrom(seq, start) ==
    LET from == IF start < 0 THEN Max(Len(seq) + start, 0)
                             ELSE Min(start, Len(seq))
    IN SubSeq(seq, from + 1, Len(seq))

VARIABLES
    hook,               \* which hook is mounted ("none": neither)
    maxHistoryLength,   \* const maxHistoryLength
    position,           \* state position: None (null), or Some sample
    predictedPosition,  \* state predictedPosition of useCursorPredictor
    history,            \* state history
    historyRef,         \* historyRef.current
    lastSampleTimeRef,  \* lastSampleTimeRef.current
    trackingRef,        \* trackingRef.current, and the state isTracking
    clock,              \* Date.now()
    moves,              \* number of mousemove events so far
    arrived,            \* history: the samples accepted since the mount or
                        \*          the latest reset, in arrival order
    lastAccepted,       \* history: None, or Some timestamp of the latest
                        \*          sample accepted since the mount
    trLast              \* history: what the latest handler did

trackVars == << hook, maxHistoryLength, position, predictedPosition, history,
                historyRef, lastSampleTimeRef, trackingRef, clock, moves,
                arrived, lastAccepted, trLast >>

NoTracker ==
    /\ hook = "none"
    /\ maxHistoryLength = 0
    /\ position = None
    /\ predictedPosition = None
    /\ history = << >>
    /\ historyRef = << >>
    /\ lastSampleTimeRef = 0
    /\ trackingRef = FALSE
    /\ clock = 0
    /\ moves = 0
    /\ arrived = << >>
    /\ lastAccepted = None
    /\ trLast = [op |-> "none"]

\* The hook after its first render and effects: startTracking has run.
Mounted(h, option) ==
    /\ hook = h
    /\ maxHistoryLength = MaxHistoryLengthOf(h, option)
    /\ position = None
    /\ predictedPosition = None
    /\ history = << >>
    /\ historyRef = << >>
    /\ lastSampleTimeRef = 0
    /\ trackingRef = TRUE
    /\ clock = MountTime
    /\ moves = 0
    /\ arrived = << >>
    /\ lastAccepted = None
    /\ trLast = [op |-> "mount"]

TrackInit ==
    \E h \in Hooks, option \in HistoryOptions :
       /\ Mounted(h, option)
       /\ IF h = "useMouseTracker"
          THEN NoFilter
          ELSE \E n \in HookParticleCounts :
                 \E noise \in [2..n -> Noises] :
                    Constructed(n, HookProcessNoise, DefaultMinProcessNoise,
                                DefaultMaxProcessNoise, Origin, noise)

\* A sample is taken when sampleRate has passed since the last one.
Accepts(currentTime) ==
    currentTime - lastSampleTimeRef >= SampleRateOf(hook)

\* The lines both handlers share: position, historyRef and history.
Recorded(newPosition) ==
    LET updatedHistory ==
            SliceFrom(Append(historyRef, newPosition), 0 - maxHistoryLength)
    IN /\ position' = Some(newPosition)
       /\ historyRef' = updatedHistory
       /\ history' = updatedHistory
       /\ arrived' = Append(arrived, newPosition)
       /\ lastAccepted' = Some(newPosition.timestamp)

\* A mousemove event that changes nothing: the sample comes too early.
Dropped ==
    /\ trLast' = [op |-> "dropped"]
    /\ UNCHANGED << position, predictedPosition, history, historyRef,
                    lastSampleTimeRef, arrived, lastAccepted >>

\* A mousemove event while trackingRef.current is false: the handler
\* returns at its first line.
Ignored ==
    /\ trLast' = [op |-> "ignored"]
    /\ UNCHANGED << position, predictedPosition, history, historyRef,
                    lastSampleTimeRef, arrived, lastAccepted >>

\* A mousemove event reaches useMouseTracker's listener.
updateMousePosition ==
    \E e \in MousePoints, step \in ClockSteps :
       LET currentTime == clock + step
           newPosition == [x |-> e.x, y |-> e.y, timestamp |-> currentTime]
       IN /\ hook = "useMouseTracker"
          /\ moves < MaxMoves
          /\ moves' = moves + 1
          /\ clock' = currentTime
          /\ IF ~trackingRef
             THEN Ignored
             ELSE IF Accepts(currentTime)
             THEN /\ Recorded(newPosition)
                  /\ lastSampleTimeRef' = currentTime
                  /\ trLast' = [op |-> "sample"]
                  /\ UNCHANGED predictedPosition
             ELSE Dropped
          /\ UNCHANGED << hook, maxHistoryLength, trackingRef >>

\* A mousemove event reaches useCursorPredictor's listener.  When
\* filterRef.current.update throws, the lines after it do not run.
updateCursorPosition ==
    \E e \in MousePoints, step \in ClockSteps :
       LET currentTime == clock + step
           newPosition == [x |-> e.x, y |-> e.y, timestamp |-> currentTime]
       IN /\ hook = "useCursorPredictor"
          /\ moves < MaxMoves
          /\ moves' = moves + 1
          /\ clock' = currentTime
          /\ IF ~trackingRef
             THEN Ignored /\ UNCHANGED pfVars
             ELSE IF Accepts(currentTime)
             THEN /\ Recorded(newPosition)
                  /\ UpdateWith(Point(e.x, e.y), currentTime)
                  /\ IF pfLast'.threw
                     THEN /\ trLast' = [op |-> "threw"]
                          /\ UNCHANGED << predictedPosition, lastSampleTimeRef >>
                     ELSE /\ predictedPosition' =
                                Some(predict(exactStateOverride', particles',
                                             predictionHorizon))
                          /\ lastSampleTimeRef' = currentTime
                          /\ trLast' = [op |-> "sample"]
             ELSE Dropped /\ UNCHANGED pfVars
          /\ UNCHANGED << hook, maxHistoryLength, trackingRef >>

\* Mutant: stopTracking sets the state isTracking only.
StopTracker_StateOnly ==
    /\ hook # "none"
    /\ trackingRef
    /\ trLast' = [op |-> "stop"]
    /\ UNCHANGED << hook, maxHistoryLength, position, predictedPosition,
                    history, historyRef, lastSampleTimeRef, trackingRef,
                    clock, moves, arrived, lastAccepted >>

\* startTracking and stopTracking of either hook.
StartTracker ==
    /\ hook # "none"
    /\ ~trackingRef
    /\ trackingRef' = TRUE
    /\ trLast' = [op |-> "start"]
    /\ UNCHANGED << hook, maxHistoryLength, position, predictedPosition,
                    history, historyRef, lastSampleTimeRef, clock, moves,
                    arrived, lastAccepted >>

StopTracker ==
    /\ hook # "none"
    /\ trackingRef
    /\ trackingRef' = FALSE
    /\ trLast' = [op |-> "stop"]
    /\ UNCHANGED << hook, maxHistoryLength, position, predictedPosition,
                    history, historyRef, lastSampleTimeRef, clock, moves,
                    arrived, lastAccepted >>

\* reset of useCursorPredictor: the filter is reset without an argument and
\* the history is emptied.
ResetPredictor ==
    /\ hook = "useCursorPredictor"
    /\ historyRef # << >>
    /\ \E noise \in [2..numParticles -> Noises] : ResetWith(None, noise)
    /\ position' = None
    /\ predictedPosition' = None
    /\ historyRef' = << >>
    /\ history' = << >>
    /\ arrived' = << >>
    /\ trLast' = [op |-> "reset"]
    /\ UNCHANGED << hook, maxHistoryLength, lastSampleTimeRef, trackingRef,
                    clock, moves, lastAccepted >>

(***************************************************************************)
(* Part VIII.  The registry of PreloadProvider (src/instructions.md, lines *)
(* 223-290): registerTarget, unregisterTarget and preloadTarget.  The      *)
(* provider runs usePreloadOnPrediction, whose evaluation cycle is that of *)
(* Part I; a registered target is a link of the document, known to the     *)
(* scheduler by its href.                                                  *)
(***************************************************************************)
MaxPreloadCalls == 2

TargetIds == {"a", "b"}
Priorities == {1, 10}

\* The targets a component may register: PreloadTarget, lines 193-199.
Targets ==
    { [id |-> "a", url |-> 1, priority |-> p, customFetch |-> c] :
          p \in Priorities, c \in BOOLEAN }
    \cup
    { [id |-> "b", url |-> 2, priority |-> p, customFetch |-> c] :
          p \in Priorities, c \in BOOLEAN }

VARIABLES
    registeredTargets,     \* state registeredTargets: id -> None or Some target
    registeredTargetsRef,  \* registeredTargetsRef.current, the same
    preloadCalls,          \* number of fetches preloadTarget has started
    pendingPreloads,       \* the fetches preloadTarget awaits, by number
    regLast                \* history: what the latest call did

regVars == << registeredTargets, registeredTargetsRef, preloadCalls,
              pendingPreloads, regLast >>

RegInit ==
    /\ registeredTargets = [id \in TargetIds |-> None]
    /\ registeredTargetsRef = [id \in TargetIds |-> None]
    /\ preloadCalls = 0
    /\ pendingPreloads = {}
    /\ regLast = [op |-> "mount"]

\* Lines 242-250.
registerTarget ==
    \E target \in Targets :
       /\ registeredTargets' = [registeredTargets EXCEPT ![target.id] = Some(target)]
       /\ registeredTargetsRef' =
             [registeredTargetsRef EXCEPT ![target.id] = Some(target)]
       /\ regLast' = [op |-> "registerTarget", id |-> target.id]
       /\ UNCHANGED << preloadCalls, pendingPreloads >>

\* Lines 253-261.
unregisterTarget ==
    \E id \in TargetIds :
       /\ registeredTargets' = [registeredTargets EXCEPT ![id] = None]
       /\ registeredTargetsRef' = [registeredTargetsRef EXCEPT ![id] = None]
       /\ regLast' = [op |-> "unregisterTarget", id |-> id]
       /\ UNCHANGED << preloadCalls, pendingPreloads >>

\* Mutant: the target's customFetch is not used.
FetchOf_AlwaysGlobal(target) == [fn |-> "fetch", url |-> target.url]

\* Lines 269-273: the function called, and its argument.
FetchOf(target) ==
    [fn |-> IF target.customFetch THEN "customFetch" ELSE "fetch",
     url |-> target.url]

\* preloadTarget(id), lines 264-273, up to the await.
preloadTarget ==
    \E id \in TargetIds :
       LET target == registeredTargetsRef[id]
       IN IF target = None
          THEN /\ regLast' = [op |-> "preloadTarget", id |-> id, called |-> None]
               /\ UNCHANGED << registeredTargets, registeredTargetsRef,
                               preloadCalls, pendingPreloads >>
          ELSE /\ preloadCalls < MaxPreloadCalls
               /\ preloadCalls' = preloadCalls + 1
               /\ pendingPreloads' = pendingPreloads \cup {preloadCalls + 1}
               /\ regLast' = [op |-> "preloadTarget", id |-> id,
                              called |-> Some(FetchOf(target[1]))]
               /\ UNCHANGED << registeredTargets, registeredTargetsRef >>

\* The awaited promise is fulfilled: preloadTarget returns.
PreloadResolved ==
    \E n \in pendingPreloads :
       /\ pendingPreloads' = pendingPreloads \ {n}
       /\ regLast' = [op |-> "resolved"]
       /\ UNCHANGED << registeredTargets, registeredTargetsRef, preloadCalls >>

\* The awaited promise is rejected: lines 274-276 log the error.
PreloadRejected ==
    \E n \in pendingPreloads :
       /\ pendingPreloads' = pendingPreloads \ {n}
       /\ regLast' = [op |-> "rejected"]
       /\ UNCHANGED << registeredTargets, registeredTargetsRef, preloadCalls >>

(***************************************************************************)
(* Specifications                                                          *)
(***************************************************************************)
vars == << schedVars, pfVars, qtVars, ixVars, runVars, hitVars, trackVars,
          regVars >>

\* The preload scheduler.
Init == SchedInit /\ NoFilter /\ NoQuadtree
    /\ IxInit /\ NoRun /\ NoHit /\ NoTracker /\ RegInit

Next ==
    \/ Tick
          /\ UNCHANGED << pfVars, qtVars, ixVars, runVars, hitVars, trackVars,
                          regVars >>
    \/ EvaluationEffect(SchedScores)
          /\ UNCHANGED << pfVars, qtVars, ixVars, runVars, hitVars, trackVars,
                          regVars >>
    \/ FetchThen
          /\ UNCHANGED << pfVars, qtVars, ixVars, runVars, hitVars, trackVars,
                          regVars >>
    \/ FetchCatch
          /\ UNCHANGED << pfVars, qtVars, ixVars, runVars, hitVars, trackVars,
                          regVars >>
    \/ cleanCache
          /\ UNCHANGED << pfVars, qtVars, ixVars, runVars, hitVars, trackVars,
                          regVars >>
    \/ clearCache
          /\ UNCHANGED << pfVars, qtVars, ixVars, runVars, hitVars, trackVars,
                          regVars >>
    \/ unmount
          /\ UNCHANGED << pfVars, qtVars, ixVars, runVars, hitVars, trackVars,
                          regVars >>

Spec == Init /\ [][Next]_vars

\* The scheduler with a fetch executor that settles the fetches it was
\* given: while a promise returned by fetch(url, {signal}) (line 415) is
\* pending, one of them is eventually resolved or rejected and the callback
\* registered for it (lines 423-455) is run by the event loop.
FetchIds == 1..(MaxFetches + 1)

Settle ==
    /\ \/ FetchThen
       \/ FetchCatch
    /\ UNCHANGED << pfVars, qtVars, ixVars, runVars, hitVars, trackVars,
                    regVars >>

FairSpec == Init /\ [][Next]_vars /\ WF_vars(Settle)

\* The scheduler at one instant, over the wider range of scores.
RankNext ==
    \/ EvaluationEffect(RankScores)
          /\ UNCHANGED << pfVars, qtVars, ixVars, runVars, hitVars, trackVars,
                          regVars >>
    \/ FetchThen
          /\ UNCHANGED << pfVars, qtVars, ixVars, runVars, hitVars, trackVars,
                          regVars >>
    \/ FetchCatch
          /\ UNCHANGED << pfVars, qtVars, ixVars, runVars, hitVars, trackVars,
                          regVars >>
    \/ cleanCache
          /\ UNCHANGED << pfVars, qtVars, ixVars, runVars, hitVars, trackVars,
                          regVars >>
    \/ clearCache
          /\ UNCHANGED << pfVars, qtVars, ixVars, runVars, hitVars, trackVars,
                          regVars >>
    \/ unmount
          /\ UNCHANGED << pfVars, qtVars, ixVars, runVars, hitVars, trackVars,
                          regVars >>

RankSpec == Init /\ [][RankNext]_vars

\* The particle filter.
PFSpecInit == PFInit /\ SchedInit /\ NoQuadtree
    /\ IxInit /\ NoRun /\ NoHit /\ NoTracker /\ RegInit

PFNext ==
    \/ update
          /\ UNCHANGED << schedVars, qtVars, ixVars, runVars, hitVars, trackVars,
                          regVars >>
    \/ reset
          /\ UNCHANGED << schedVars, qtVars, ixVars, runVars, hitVars, trackVars,
                          regVars >>

PFSpec == PFSpecInit /\ [][PFNext]_vars

\* The particle filter constructed with options over a wider range.
PFOptionsSpecInit == PFOptionsInit /\ SchedInit /\ NoQuadtree
    /\ IxInit /\ NoRun /\ NoHit /\ NoTracker /\ RegInit

PFOptionsSpec == PFOptionsSpecInit /\ [][PFNext]_vars

\* One quadtree.
QuadSpecInit == QuadInit /\ SchedInit /\ NoFilter
    /\ IxInit /\ NoRun /\ NoHit /\ NoTracker /\ RegInit

QuadNext ==
    \/ QuadInsert
          /\ UNCHANGED << schedVars, pfVars, ixVars, runVars, hitVars, trackVars,
                          regVars >>
    \/ QuadClear
          /\ UNCHANGED << schedVars, pfVars, ixVars, runVars, hitVars, trackVars,
                          regVars >>

QuadSpec == QuadSpecInit /\ [][QuadNext]_vars

\* The index of the scheduler.
IxNext ==
    \/ startTracking
          /\ UNCHANGED << schedVars, pfVars, qtVars, runVars, hitVars, trackVars,
                          regVars >>
    \/ stopTracking
          /\ UNCHANGED << schedVars, pfVars, qtVars, runVars, hitVars, trackVars,
                          regVars >>
    \/ AddLink
          /\ UNCHANGED << schedVars, pfVars, qtVars, runVars, hitVars, trackVars,
                          regVars >>
    \/ RemoveLink
          /\ UNCHANGED << schedVars, pfVars, qtVars, runVars, hitVars, trackVars,
                          regVars >>
    \/ SetHref
          /\ UNCHANGED << schedVars, pfVars, qtVars, runVars, hitVars, trackVars,
                          regVars >>
    \/ MoveLink
          /\ UNCHANGED << schedVars, pfVars, qtVars, runVars, hitVars, trackVars,
                          regVars >>
    \/ handleResize
          /\ UNCHANGED << schedVars, pfVars, qtVars, runVars, hitVars, trackVars,
                          regVars >>
    \/ ConsultIndex
          /\ UNCHANGED << schedVars, pfVars, qtVars, runVars, hitVars, trackVars,
                          regVars >>

IxSpec == Init /\ [][IxNext]_vars

\* The runs of the filter tests.
RunSpecInit == RunInit /\ SchedInit /\ NoQuadtree
    /\ IxInit /\ NoHit /\ NoTracker /\ RegInit

RunNext ==
    \/ Feed /\ UNCHANGED << schedVars, qtVars, ixVars, hitVars, trackVars,
                          regVars >>
    \/ ConstructSecond
          /\ UNCHANGED << schedVars, qtVars, ixVars, hitVars, trackVars,
                          regVars >>

RunSpec == RunSpecInit /\ [][RunNext]_vars

\* Calls of calculateHitProbability.
HitNext ==
    \/ Score
          /\ UNCHANGED << schedVars, pfVars, qtVars, ixVars, runVars, trackVars,
                          regVars >>

HitSpec == Init /\ [][HitNext]_vars

\* The trackers.
TrackSpecInit ==
    TrackInit /\ SchedInit /\ NoQuadtree /\ IxInit /\ NoRun /\ NoHit
        /\ RegInit

TrackNext ==
    \/ updateMousePosition
          /\ UNCHANGED << schedVars, pfVars, qtVars, ixVars, runVars, hitVars,
                          regVars >>
    \/ updateCursorPosition
          /\ UNCHANGED << schedVars, qtVars, ixVars, runVars, hitVars,
                          regVars >>
    \/ StartTracker
          /\ UNCHANGED << schedVars, pfVars, qtVars, ixVars, runVars, hitVars,
                          regVars >>
    \/ StopTracker
          /\ UNCHANGED << schedVars, pfVars, qtVars, ixVars, runVars, hitVars,
                          regVars >>
    \/ ResetPredictor
          /\ UNCHANGED << schedVars, qtVars, ixVars, runVars, hitVars,
                          regVars >>

TrackSpec == TrackSpecInit /\ [][TrackNext]_vars

\* The registry of the provider, and the evaluation cycle of its scheduler.
RegNext ==
    \/ registerTarget
          /\ UNCHANGED << schedVars, pfVars, qtVars, ixVars, runVars, hitVars,
                          trackVars >>
    \/ unregisterTarget
          /\ UNCHANGED << schedVars, pfVars, qtVars, ixVars, runVars, hitVars,
                          trackVars >>
    \/ preloadTarget
          /\ UNCHANGED << schedVars, pfVars, qtVars, ixVars, runVars, hitVars,
                          trackVars >>
    \/ PreloadResolved
          /\ UNCHANGED << schedVars, pfVars, qtVars, ixVars, runVars, hitVars,
                          trackVars >>
    \/ PreloadRejected
          /\ UNCHANGED << schedVars, pfVars, qtVars, ixVars, runVars, hitVars,
                          trackVars >>
    \/ EvaluationEffect(SchedScores)
          /\ UNCHANGED << pfVars, qtVars, ixVars, runVars, hitVars, trackVars,
                          regVars >>

RegSpec == Init /\ [][RegNext]_vars


(***************************************************************************)
(* Part I: properties of the scheduler                                     *)
(***************************************************************************)

\* The fetches in flight: started and not yet completed, failed or cancelled.
InFlight == {f \in fetches : ~f.aborted}

Started == {f.url : f \in fetches' \ fetches}

TopK(list) == {list[i].element : i \in 1..Min(maxConcurrentPreloads, Len(list))}

Unexpired(cache) == {e \in Range(cache) : now - e.timestamp <= maxAge}

\* C1: at every moment the number of fetches in flight is at most
\* maxConcurrentPreloads.
C1_InFlightBounded == Cardinality(InFlight) <= maxConcurrentPreloads

C3_OneFetchPerKey ==
    \A f \in InFlight, g \in InFlight : f.url = g.url => f.id = g.id

\* C4: clearCache cancels every fetch in flight when it is called and leaves
\* the cache, the in-flight set and the status list empty; a fetch that was
\* in flight when clearCache ran never afterwards adds a cache entry or a
\* status entry.
C4_ClearCacheCancelsAll ==
    [][ /\ last'.op = "clearCache"
            => /\ \A f \in fetches' : f.aborted
               /\ preloadCache' = << >>
               /\ preloadedResources' = << >>
        /\ \A f \in fetches :
              (f.id \in clearedInFlight /\ f \notin fetches')
                  => /\ preloadCache' = preloadCache
                     /\ preloadedResources' = preloadedResources ]_vars

\* C7: when a cache-maintenance run finds more than cacheSize unexpired
\* entries, it leaves exactly cacheSize entries, and every entry it keeps was
\* inserted no earlier than every entry it evicts.
C7_EvictsOldestFirst ==
    [][ (last'.op = "cleanCache" /\ Cardinality(Unexpired(preloadCache)) > cacheSize)
            => /\ Len(preloadCache') = cacheSize
               /\ Range(preloadCache') \subseteq Unexpired(preloadCache)
               /\ \A k \in Range(preloadCache') :
                     \A e \in Unexpired(preloadCache) \ Range(preloadCache') :
                         k.timestamp >= e.timestamp ]_vars

\* C7 witness: a maintenance run evicted by size, and the entries it kept
\* are strictly newer than some entry that is gone.
C7_Witness ==
    /\ last.op = "cleanCache"
    /\ last.evicted >= 1
    /\ Len(preloadCache) = cacheSize
    /\ \E i \in 1..Len(preloadCache), j \in 1..Len(preloadCache) :
          preloadCache[i].timestamp # preloadCache[j].timestamp

\* C8 (as stated): in every reachable state the number of cache entries is
\* at most cacheSize.
C8_CacheBounded == Len(preloadCache) <= cacheSize

\* C8 (amended): immediately after every cache-maintenance run the number
\* of cache entries is at most cacheSize; between runs, fetch completions
\* add entries without limit.
C8_BoundedAfterMaintenance ==
    last.op = "cleanCache" => Len(preloadCache) <= cacheSize

\* C8 witness: completions had pushed the cache above cacheSize and a
\* maintenance run cut it, and the status list, down to cacheSize.
C8_Witness ==
    /\ last.op = "cleanCache"
    /\ last.evicted >= 1
    /\ Len(preloadCache) = cacheSize
    /\ Len(preloadedResources) = cacheSize

\* C9: two evaluation cycles that run are at least checkFrequency apart; a
\* position change less than checkFrequency after the previous cycle runs
\* no query, no scoring and starts no fetch.
C9_Throttled ==
    [][ /\ (last'.op = "cycle" /\ ranAt # 0) => now' - ranAt >= checkFrequency
        /\ (last'.op \in {"cycle", "throttled"} /\ ranAt # 0
               /\ now - ranAt < checkFrequency)
            => /\ last'.op = "throttled"
               /\ fetches' = fetches
               /\ potentialTargets' = potentialTargets
               /\ preloadedResources' = preloadedResources
               /\ activePreloads' = activePreloads ]_vars

\* C9 witness: after a second cycle had run, a position change arriving
\* less than checkFrequency later was throttled.
C9_Witness ==
    /\ last.op = "throttled"
    /\ ranAt >= StartTime + checkFrequency
    /\ now - ranAt < checkFrequency

\* C10: after every evaluation cycle the exposed candidate list holds only
\* candidates with probability >= minProbability, ordered by probability
\* descending and, for equal probability, by timeToReach ascending; fetches
\* are started only for candidates among its first maxConcurrentPreloads.
C10_RankedTargets ==
    [][ last'.op = "cycle"
            => /\ \A i \in 1..Len(potentialTargets') :
                     potentialTargets'[i].probability >= minProbability
               /\ \A i \in 1..Len(potentialTargets'), j \in 1..Len(potentialTargets') :
                     i < j =>
                       \/ potentialTargets'[i].probability > potentialTargets'[j].probability
                       \/ /\ potentialTargets'[i].probability = potentialTargets'[j].probability
                          /\ potentialTargets'[i].timeToReach <= potentialTargets'[j].timeToReach
               /\ Started \subseteq TopK(potentialTargets') ]_vars

\* C10 witness: a cycle exposed three candidates, two of equal probability
\* and different timeToReach and one of lower probability, and started
\* fetches.
C10_Witness ==
    /\ last.op = "cycle"
    /\ Len(potentialTargets) = 3
    /\ potentialTargets[1].probability = potentialTargets[2].probability
    /\ potentialTargets[1].timeToReach < potentialTargets[2].timeToReach
    /\ potentialTargets[3].probability < potentialTargets[2].probability
    /\ potentialTargets[1].element > potentialTargets[2].element
    /\ activePreloads[potentialTargets[1].element] # 0

Failed(cache, url) ==
    \E i \in 1..Len(cache) : cache[i].url = url /\ cache[i].status = "error"

Uncached(cache, active, url) == ~CacheHas(cache, url) /\ active[url] = 0

\* C11: a fetch that fails for a reason other than cancellation leaves a
\* Failed cache entry for its key and touches no other cache entry, no other
\* fetch and no other key's controller; while a key has a Failed entry no
\* fetch is started for it; and a cycle still starts the fetch of every
\* other key among its first maxConcurrentPreloads candidates that is
\* neither cached nor being loaded.
C11_FailureRecorded ==
    [][ /\ (last'.op = "settle" /\ last'.outcome = "error")
            => /\ Failed(preloadCache', last'.url)
               /\ \A e \in Range(preloadCache) :
                     e.url # last'.url => e \in Range(preloadCache')
               /\ \A g \in fetches : g.url # last'.url => g \in fetches'
               /\ \A u \in Urls \ {last'.url} :
                     activePreloads'[u] = activePreloads[u]
        /\ \A u \in Urls : Failed(preloadCache, u) => u \notin Started
        /\ (last'.op = "cycle" /\ \E u \in Urls : Failed(preloadCache, u))
            => \A v \in TopK(potentialTargets') :
                  Uncached(preloadCache, activePreloads, v) => v \in Started ]_vars

\* C11 witness: with the Failed entry of one key in the cache, a cycle in
\* which that key was a candidate again has started the fetch of another
\* key and none for the failed one.
C11_Witness ==
    /\ last.op = "cycle"
    /\ \E i \in 1..Len(potentialTargets) :
          /\ Failed(preloadCache, potentialTargets[i].element)
          /\ activePreloads[potentialTargets[i].element] = 0
    /\ \E f \in InFlight :
          /\ f.id = nextId - 1
          /\ ~Failed(preloadCache, f.url)

\* C12: a fetch that ends by cancellation writes no cache entry and no
\* status (so no Failed entry and no 'error' status) and releases its key's
\* controller; clearCache, which cancels, leaves every key Uncached; and a
\* key that is Uncached is fetched again by a cycle that ranks it among its
\* first maxConcurrentPreloads candidates, whether or not the callback of
\* the cancelled fetch has run.
C12_CancellationSwallowed ==
    [][ /\ (last'.op = "settle" /\ last'.outcome = "cancelled")
            => /\ preloadCache' = preloadCache
               /\ preloadedResources' = preloadedResources
               /\ activePreloads'[last'.url] = 0
        /\ last'.op = "clearCache"
            => \A u \in Urls : Uncached(preloadCache', activePreloads', u)
        /\ last'.op = "cycle"
            => \A f \in fetches :
                  (/\ f.aborted
                   /\ f.url \in TopK(potentialTargets')
                   /\ Uncached(preloadCache, activePreloads, f.url))
                      => f.url \in Started ]_vars

\* C12 witness: the callback of a cancelled fetch has run while the
\* component is mounted, its key is Uncached and has neither a Failed entry
\* nor an 'error' status.
C12_Witness ==
    /\ last.op = "settle"
    /\ last.outcome = "cancelled"
    /\ mounted
    /\ Uncached(preloadCache, activePreloads, last.url)
    /\ \A i \in 1..Len(preloadedResources) :
          preloadedResources[i].url = last.url
              => preloadedResources[i].status # "error"

\* C13: every fetch in flight has its cancellation handle held in
\* activePreloads from its start until it settles, and after the teardown
\* of the component no fetch is left in flight uncancelled.
C13_TeardownCancelsAll ==
    /\ \A f \in InFlight : activePreloads[f.url] = f.id
    /\ ~mounted => InFlight = {}

\* The rows of the status list for one key, and the status the internal
\* maps give the key: 'loading' while it has a controller in
\* activePreloads, otherwise the status of its cache entry, if any.
RowsOf(url) ==
    {i \in 1..Len(preloadedResources) : preloadedResources[i].url = url}

InternalStatus(url) ==
    IF activePreloads[url] # 0 THEN {"loading"}
    ELSE {e.status : e \in {c \in Range(preloadCache) : c.url = url}}

\* C37: while the component is mounted the status list mirrors the
\* internal maps: a key with a fetch in flight has exactly one row, with
\* status 'loading', a key with a cache entry has exactly one row with the
\* status of the entry, and no other key has a row, also after a run of
\* cleanCache while fetches are in flight.
C37_StatusListMirrors ==
    mounted =>
        \A u \in Urls :
            IF InternalStatus(u) = {}
            THEN RowsOf(u) = {}
            ELSE /\ Cardinality(RowsOf(u)) = 1
                 /\ \A i \in RowsOf(u) :
                       preloadedResources[i].status \in InternalStatus(u)

\* The fetch with controller id has not settled yet.
Unsettled(id) == \E f \in fetches : f.id = id

\* C38: with a fetch executor that settles every fetch, every started
\* fetch eventually settles and its controller eventually leaves
\* activePreloads, and the callback of a fetch that completed, failed or
\* was cancelled leaves no controller under the key of the fetch.
C38_FetchLeavesInFlight ==
    /\ \A id \in FetchIds : Unsettled(id) ~> ~Unsettled(id)
    /\ \A id \in FetchIds :
          (\E u \in Urls : activePreloads[u] = id)
              ~> (\A u \in Urls : activePreloads[u] # id)
    /\ [][last'.op = "settle" => activePreloads'[last'.url] = 0]_vars

\* C38 witness: three fetches were started, the last callback to run was
\* that of a cancelled fetch, and no fetch and no controller is left.
C38_Witness ==
    /\ last.op = "settle"
    /\ last.outcome = "cancelled"
    /\ nextId > MaxFetches
    /\ fetches = {}
    /\ \A u \in Urls : activePreloads[u] = 0

(***************************************************************************)
(* Claims about the particle filter (PFSpec)                               *)
(***************************************************************************)
\* exactStateOverride is never null: the branches of getState,
\* updateWeights and resampleParticles taken are those of the override.
ExactStateSet == exactStateOverride # None

Weights == [i \in 1..Len(particles) |-> particles[i].weight]

NonNegative(w) == IsFinite(w) /\ w[1] >= 0

\* |w - 1| <= 1e-6
CloseToOne(w) ==
    /\ IsFinite(w)
    /\ 1000000 * (w[1] - w[2]) <= w[2]
    /\ 1000000 * (w[2] - w[1]) <= w[2]

AfterUpdate == pfLast.op \in {"first", "skip", "update"} /\ ~pfLast.threw

\* C5: with numParticles >= 2, immediately after each update returns all
\* particle weights are non-negative and sum to 1 within 1e-6, whether or
\* not the update resampled and also when every likelihood was zero.
C5_WeightsNormalised ==
    (numParticles >= 2 /\ AfterUpdate) =>
        /\ \A i \in 1..Len(particles) : NonNegative(Weights[i])
        /\ CloseToOne(SumWeights(particles, 1, Zero))

\* C6: getParticles() returns exactly numParticles particles in every
\* reachable state: after construction, after every update (first sample,
\* skipped sample, with or without resampling) and after reset.
C6_ParticleCount == Len(getParticles) = numParticles

\* C6 witness: an update that resampled a population of several particles
\* has returned, and getParticles() has numParticles entries.
C6_Witness ==
    /\ pfLast.op = "update"
    /\ pfLast.resampled
    /\ numParticles >= 2
    /\ Len(getParticles) = numParticles

\* C19: an update whose sample is less than the minimum elapsed time after
\* the previous one changes nothing: particles, state estimate, noise
\* parameter, sample history, remembered timestamp and position stay.
C19_SkipChangesNothing ==
    [][pfLast'.op = "skip" =>
          UNCHANGED << particles, exactStateOverride, processNoise,
                       measurementHistory, lastTimestamp, lastMeasurement >>]_vars

\* C20: the first update after construction or reset takes the first-sample
\* branch: the state estimate is exactly the sample's position with zero
\* velocity, and the particles are those of a fresh initialisation around
\* it (initial weights, no propagation, reweighting or resampling).
C20_FirstSampleSnaps ==
    [][(lastTimestamp = None /\ pfLast'.op \in {"first", "skip", "update"}) =>
          /\ pfLast'.op = "first"
          /\ ~pfLast'.resampled
          /\ \E pos \in Positions :
                LET state == [x |-> pos.x, y |-> pos.y, vx |-> 0, vy |-> 0]
                IN /\ getState(exactStateOverride') = state
                   /\ lastMeasurement' = Some(pos)
                   /\ \E noise \in [2..numParticles -> Noises] :
                         particles' = initializeParticles(state, numParticles, noise)]_vars

\* C20 witness: a first update has put the state at a sample away from the
\* origin while the filter holds at least two particles.
C20_Witness ==
    /\ pfLast.op = "first"
    /\ numParticles >= 2
    /\ getState(exactStateOverride) = [x |-> 2, y |-> 2, vx |-> 0, vy |-> 0]
    /\ particles[1].x = 2

\* The weighted mean of component c of the population is the integer v.
MeanIs(ps, c, v) ==
    /\ \A i \in 1..Len(ps) : IsFinite(ps[i].weight)
    /\ LET sum == WeightedSum(ps, c, 1, << 0, 1 >>)
       IN sum[1] = v * sum[2]

\* C21: getState() is the weighted mean of the current particles in each of
\* x, y, vx and vy, in every state of a constructed filter.
C21_StateIsWeightedMean ==
    pfLast.op # "none" =>
        \A c \in {"x", "y", "vx", "vy"} :
            MeanIs(particles, c, getState(exactStateOverride)[c])

\* Two fractions are the same finite number.
SameNumber(a, b) == a[2] # 0 /\ b[2] # 0 /\ a[1] * b[2] = b[1] * a[2]

\* C22: predict(h) with h <= 0 returns the position of getState(); with
\* h > 0 it returns the weighted mean of the particles' positions, each
\* extrapolated by its own velocity over h.
C22_PredictAsSpecified ==
    pfLast.op # "none" =>
        \A h \in Horizons :
            LET got == predict(exactStateOverride, particles, h)
                state == getState(exactStateOverride)
            IN IF h <= 0
               THEN /\ SameNumber(got.x, << state.x, 1 >>)
                    /\ SameNumber(got.y, << state.y, 1 >>)
               ELSE /\ \A i \in 1..Len(particles) : IsFinite(particles[i].weight)
                    /\ SameNumber(got.x, Extrapolated(particles, "x", "vx", h))
                    /\ SameNumber(got.y, Extrapolated(particles, "y", "vy", h))

\* The first half of C22 alone: predict(h) with h <= 0 returns the position
\* of getState().
C22_NoLookBack ==
    pfLast.op # "none" =>
        \A h \in {k \in Horizons : k <= 0} :
            LET got == predict(exactStateOverride, particles, h)
                state == getState(exactStateOverride)
            IN /\ SameNumber(got.x, << state.x, 1 >>)
               /\ SameNumber(got.y, << state.y, 1 >>)

\* C23: right after reset(s), getState() is exactly s with a missing vx or
\* vy read as 0 (the zero state without s), and nothing of the earlier
\* samples is remembered, so that the next update is a first sample.
C23_ResetRoundTrip ==
    pfLast.op = "reset" =>
        /\ getState(exactStateOverride) =
              IF pfLast.arg = None THEN Origin
              ELSE [x |-> pfLast.arg[1].x, y |-> pfLast.arg[1].y,
                    vx |-> IF pfLast.arg[1].vx = None THEN 0
                                                      ELSE pfLast.arg[1].vx[1],
                    vy |-> IF pfLast.arg[1].vy = None THEN 0
                                                      ELSE pfLast.arg[1].vy[1]]
        /\ measurementHistory = << >>
        /\ lastTimestamp = None
        /\ lastMeasurement = None
        /\ ENABLED (update /\ pfLast'.op = "first")
        /\ ~ENABLED (update /\ pfLast'.op # "first")

\* C23 witness: reset to a moving state after two updates, with noisy
\* particles around it.
C23_Witness ==
    /\ pfLast.op = "reset"
    /\ pfLast.after >= 2
    /\ pfLast.arg = Some([x |-> 2, y |-> 2, vx |-> Some(1), vy |-> Some(2)])
    /\ numParticles >= 2
    /\ particles[2].x # 2

\* C24: getNoiseParameters().processNoise lies in [minProcessNoise,
\* maxProcessNoise] in every state of a constructed filter.
C24_ProcessNoiseWithinLimits ==
    pfLast.op # "none" =>
        /\ minProcessNoise <= getNoiseParameters.processNoise
        /\ getNoiseParameters.processNoise <= maxProcessNoise

\* C25: no filter whose configuration has minProcessNoise > maxProcessNoise
\* ever completes an update.
C25_BadLimitsNeverUsable ==
    pfLast.op \in {"first", "update"} => minProcessNoise <= maxProcessNoise

(***************************************************************************)
(* Claims about runs of the filter (RunSpec)                               *)
(***************************************************************************)
\* The list has been fed to the filter and no update has thrown.
RunComplete(script) ==
    /\ run.script = script
    /\ samples = Len(script)
    /\ ~run.threw

\* C26: after the same straight line and the same turn, getState().vy of
\* the filter with processNoise 10 is strictly greater than that of the
\* filter with processNoise 1.
C26_HigherNoiseTurnsFaster ==
    (RunComplete(Turn) /\ run.first # None) =>
        getState(exactStateOverride).vy > run.first[1].vy

SampleState(script, k) ==
    IF k = 0 THEN Origin
    ELSE IF k = 1
         THEN [x |-> script[1].pos.x, y |-> script[1].pos.y, vx |-> 0, vy |-> 0]
         ELSE LET dtMs == script[k].timestamp - script[k - 1].timestamp
              IN [x |-> script[k].pos.x,
                  y |-> script[k].pos.y,
                  vx |-> MeasuredVelocity(script[k].pos.x - script[k - 1].pos.x, dtMs),
                  vy |-> MeasuredVelocity(script[k].pos.y - script[k - 1].pos.y, dtMs)]

\* C40: getState() and predict(h) of a filter that was fed the first
\* samples of a list are those the samples determine, whatever the noise
\* draws, numParticles and processNoise of the filter: two filters fed the
\* same samples return the same values.
C40_DeterminedBySamples ==
    run.script # << >> =>
        LET determined == SampleState(run.script, samples)
        IN /\ getState(exactStateOverride) = determined
           /\ predict(exactStateOverride, particles, predictionHorizon)
                  = predict(Some(determined), << >>, predictionHorizon)

(***************************************************************************)
(* Claims about calculateHitProbability (HitSpec)                          *)
(***************************************************************************)
\* What the claims say of a call, computed from its arguments without a
\* square root: m is the movement, t the vector to the region's centre, r
\* half the region's smaller side.
Movement(h) == [x |-> h.predictedPosition.x - h.currentPosition.x,
                y |-> h.predictedPosition.y - h.currentPosition.y]
ToCentre(h) == [x |-> h.rect.x + h.rect.width \div 2 - h.currentPosition.x,
                y |-> h.rect.y + h.rect.height \div 2 - h.currentPosition.y]
HalfSize(h) == Min(h.rect.width, h.rect.height) \div 2
LengthSquared(v) == v.x * v.x + v.y * v.y
Dot(v, w) == v.x * w.x + v.y * w.y
Cross(v, w) == v.x * w.y - v.y * w.x

Moving(h) == LengthSquared(Movement(h)) > 0
\* perpendicular distance <= r
OnPath(h) ==
    Cross(ToCentre(h), Movement(h)) * Cross(ToCentre(h), Movement(h))
        <= HalfSize(h) * HalfSize(h) * LengthSquared(Movement(h))
Ahead(h) == Dot(ToCentre(h), Movement(h)) > 0
\* For a positive horizon, timeToReach <= horizon says that the projection
\* less the half chord is at most the movement's length; a horizon of 0
\* makes every timeToReach 0, and a negative one turns the comparison
\* round.
WithinHorizon(h) ==
    LET m2 == LengthSquared(Movement(h))
        over == Dot(ToCentre(h), Movement(h)) - m2
        c == Cross(ToCentre(h), Movement(h))
    IN \/ h.horizonTime <= 0
       \/ over <= 0
       \/ over * over <= HalfSize(h) * HalfSize(h) * m2 - c * c

\* C28: the probability is in [0, 1]; it is greater than 0 only if there
\* is movement and the region is on the path, ahead and reached within the
\* horizon; with no movement it is 0 and timeToReach is +Infinity.
C28_ProbabilityBounded ==
    hit.op = "score" =>
        LET p == hit.result.probability
        IN /\ p[2] > 0 /\ 0 <= p[1] /\ p[1] <= p[2]
           /\ (p[1] > 0 =>
                 /\ Moving(hit) /\ OnPath(hit) /\ Ahead(hit)
                 /\ WithinHorizon(hit)
                 /\ IsFinite(hit.result.timeToReach)
                 /\ hit.result.timeToReach[1]
                       <= hit.horizonTime * hit.result.timeToReach[2])
           /\ (~Moving(hit) =>
                 /\ p[1] = 0
                 /\ hit.result.timeToReach = Infinity)

\* C28 witness: a call for a region on the path that the cursor is already
\* inside of, whose score before the limit exceeds 1, has returned 1.
C28_Witness ==
    /\ hit.op = "score"
    /\ Moving(hit)
    /\ hit.result.probability[1] = hit.result.probability[2]
    /\ hit.result.timeToReach[1] < 0

\* C39: for a horizon that is not negative, a timeToReach returned by
\* calculateHitProbability is either Infinity or not negative, also when
\* the current position lies inside the bounding circle of the region.
C39_TimeToReachNonNegative ==
    (/\ hit.op = "score"
     /\ hit.horizonTime >= 0
     /\ IsFinite(hit.result.timeToReach))
        => hit.result.timeToReach[1] >= 0

\* The identical region with its centre moved by v.
Shifted(rect, v) == Rect(rect.x + v.x, rect.y + v.y, rect.width, rect.height)

\* The call scored a region whose centre is on the path, half way to the
\* predicted position.
HalfWay(h) ==
    /\ h.op = "score"
    /\ Moving(h)
    /\ 2 * ToCentre(h).x = Movement(h).x
    /\ 2 * ToCentre(h).y = Movement(h).y

\* The score of the identical region twice as far along the path, for the
\* same positions and horizon.
TwiceAsFar(h) ==
    calculateHitProbability(Shifted(h.rect, ToCentre(h)), h.currentPosition,
                            h.predictedPosition, h.horizonTime)

\* A result for a region that is on the path, ahead and reachable.
Reachable(result, horizonTime) ==
    /\ IsFinite(result.timeToReach)
    /\ result.timeToReach[1] <= horizonTime * result.timeToReach[2]

BothReachable(h) ==
    /\ HalfWay(h)
    /\ Reachable(h.result, h.horizonTime)
    /\ Reachable(TwiceAsFar(h), h.horizonTime)

\* a < b for two scores, which have the same denominator when the regions
\* have the same size and the movement is the same
LowerScore(a, b) == IF a[2] = b[2] THEN a[1] < b[1] ELSE Less(a, b)

\* C29 as stated: of two identical regions centred on the predicted path,
\* both ahead and reachable, the one half way to the predicted position
\* scores strictly higher than the one twice as far.
C29_NearerScoresHigher ==
    BothReachable(hit) =>
        LowerScore(TwiceAsFar(hit).probability, hit.result.probability)

\* C29 amended: the same, for regions whose half smaller side is less than
\* the movement's length, so that the farther one scores below 1.
C29_NearerScoresHigherBelowLimit ==
    (/\ BothReachable(hit)
     /\ HalfSize(hit) * HalfSize(hit) < LengthSquared(Movement(hit)))
        => LowerScore(TwiceAsFar(hit).probability, hit.result.probability)

\* C29 witness: two such regions have been compared, the nearer one scoring
\* 1 at the limit and the farther one more than 0.
C29_Witness ==
    /\ BothReachable(hit)
    /\ HalfSize(hit) * HalfSize(hit) < LengthSquared(Movement(hit))
    /\ hit.result.probability[1] = hit.result.probability[2]
    /\ TwiceAsFar(hit).probability[1] > 0

(***************************************************************************)
(* Claims about the quadtree (QuadSpec)                                    *)
(***************************************************************************)
Segments == QueryPoints \X QueryPoints

\* The segment touches the rectangle: some point of the segment lies in it.
\* The segment start + t (end - start), 0 <= t <= 1, clipped against the
\* four half-planes of the rectangle, is not empty.
Touches(start, end, rect) ==
    \/ pointInRect(start, rect)
    \/ pointInRect(end, rect)
    \/ LET corners == << Point(rect.x, rect.y),
                         Point(rect.x + rect.width, rect.y),
                         Point(rect.x + rect.width, rect.y + rect.height),
                         Point(rect.x, rect.y + rect.height) >>
           Side(p) == (end.x - start.x) * (p.y - start.y)
                        - (end.y - start.y) * (p.x - start.x)
       IN /\ intersects(LineBounds(start, end), rect)
          /\ \E i \in 1..4 : Side(corners[i]) >= 0
          /\ \E i \in 1..4 : Side(corners[i]) <= 0

Hits(start, end) == {i.element : i \in {j \in stored : Touches(start, end, j.bounds)}}

RECURSIVE MaxNodeDepth(_)
MaxNodeDepth(node) ==
    IF ~node.divided THEN node.depth
    ELSE Max(Max(MaxNodeDepth(node.children[1]), MaxNodeDepth(node.children[2])),
             Max(MaxNodeDepth(node.children[3]), MaxNodeDepth(node.children[4])))

\* C14: queryLine returns every inserted region whose bounds intersect the
\* segment, for every segment.
C14_NoFalseNegatives ==
    qtLast.op \in {"new", "insert", "clear"} =>
        \A seg \in Segments :
            Hits(seg[1], seg[2]) \subseteq Range(queryLine(tree, seg[1], seg[2]))

\* The test 'should correctly insert and query elements': ten regions 100
\* apart along y = 100, 50 wide and 20 high, inserted in order into a tree
\* of 1000 by 1000 with the default options.
RECURSIVE InsertAll(_, _)
InsertAll(node, items) ==
    IF items = << >> THEN node
    ELSE InsertAll(insert(node, Head(items)).node, Tail(items))

ExampleTree ==
    InsertAll(NewQuadtree(Rect(0, 0, 1000, 1000), DefaultCapacity,
                          DefaultMaxDepth, 0),
              [i \in 1..10 |-> [element |-> i - 1,
                                bounds |-> Rect((i - 1) * 100, 100, 50, 20)]])

ExampleResult == queryLine(ExampleTree, Point(200, 100), Point(400, 100))

\* C15: queryLine returns exactly the set of inserted regions
\* whose bounds the segment touches.
C15_ExactResult ==
    qtLast.op \in {"new", "insert", "clear"} =>
        \A seg \in Segments :
            Range(queryLine(tree, seg[1], seg[2])) = Hits(seg[1], seg[2])

\* The half of C15 that holds: queryLine returns only inserted regions whose
\* stored bounds the segment touches, each once; for the ten regions 100
\* apart along y = 100 the segment (200,100)->(400,100) returns exactly
\* those at x = 200, 300 and 400.
C15_OnlyTouchedRegions ==
    /\ \A seg \in Segments :
          LET result == queryLine(tree, seg[1], seg[2])
          IN /\ Range(result) \subseteq Hits(seg[1], seg[2])
             /\ Cardinality(Range(result)) = Len(result)
    /\ Range(ExampleResult) = {2, 3, 4}
    /\ Len(ExampleResult) = 3

\* A diagonal segment whose bounding box covers a stored region
\* that the segment does not touch; the result leaves that region out and
\* holds another one.
C15_Witness ==
    \E seg \in Segments, i \in stored :
        /\ seg[1].x # seg[2].x
        /\ seg[1].y # seg[2].y
        /\ intersects(LineBounds(seg[1], seg[2]), i.bounds)
        /\ ~Touches(seg[1], seg[2], i.bounds)
        /\ i.element \notin Range(queryLine(tree, seg[1], seg[2]))
        /\ queryLine(tree, seg[1], seg[2]) # << >>

\* C16: no node deeper than maxDepth ever exists in the tree.
C16_DepthBounded == MaxNodeDepth(tree) <= maxDepth

\* C17: after clear() every queryLine returns the empty list, and the tree
\* is the tree the constructor builds for the same bounds and options, so
\* every later insert and query behaves as on a fresh tree.
C17_ClearResets ==
    qtLast.op = "clear" =>
        /\ tree = NewQuadtree(RootBounds, capacity, maxDepth, 0)
        /\ \A seg \in Segments : queryLine(tree, seg[1], seg[2]) = << >>
        /\ \A element \in Elements, rect \in ClientRects :
              LET item == [element |-> element, bounds |-> rect]
              IN insert(tree, item)
                    = insert(NewQuadtree(RootBounds, capacity, maxDepth, 0), item)

\* C17 witness: clear() was called on a subdivided tree holding two regions.
C17_Witness ==
    /\ qtLast.op = "clear"
    /\ qtLast.divided
    /\ qtLast.held >= 2

(***************************************************************************)
(* Claims about the index of the scheduler (IxSpec)                        *)
(***************************************************************************)
\* C18: the index a cycle consults is the tree built from the current links
\* with their current bounds in the current viewport.
C18_IndexCurrent ==
    ixLast.op = "cycle" =>
        quadtreeRef = Some(buildQuadtree(document, window).tree)

(***************************************************************************)
(* Claims about the trackers (TrackSpec)                                   *)
(***************************************************************************)
\* The last n elements of seq, in order; all of it when it is shorter.
MostRecent(seq, n) ==
    SubSeq(seq, Len(seq) - Min(n, Len(seq)) + 1, Len(seq))

\* C30: for maxHistoryLength >= 1 the history never holds more than
\* maxHistoryLength samples; it holds the most recent
\* min(n, maxHistoryLength) of the n accepted samples, in arrival order.
C30_HistoryIsMostRecent ==
    (hook # "none" /\ maxHistoryLength >= 1) =>
        /\ Len(historyRef) <= maxHistoryLength
        /\ Len(historyRef) = Min(Len(arrived), maxHistoryLength)
        /\ historyRef = MostRecent(arrived, maxHistoryLength)
        /\ history = historyRef

\* C30 witness: a sample has just been accepted by a full history, whose
\* oldest sample was dropped.
C30_Witness ==
    /\ hook # "none"
    /\ maxHistoryLength = 2
    /\ trLast.op = "sample"
    /\ Len(arrived) = 3
    /\ historyRef = << arrived[2], arrived[3] >>
    /\ arrived[1] # arrived[2]

\* A mousemove event has reached the listener of the hook, tracking being on.
PointerEvent == moves' = moves + 1 /\ trackingRef

\* The event comes less than sampleRate after the latest accepted sample.
TooEarly ==
    /\ lastAccepted # None
    /\ clock' - lastAccepted[1] < SampleRateOf(hook)

\* What a dropped event leaves alone.
NothingSampled ==
    UNCHANGED << position, predictedPosition, history, historyRef, arrived,
                 pfVars >>

\* C31: an event less than sampleRate after the latest accepted sample is
\* dropped, position, history, filter and predicted position unchanged; any
\* other event is accepted, its sample becoming the position and the last
\* of the history.
C31_SamplingRate ==
    [][PointerEvent =>
          IF TooEarly
          THEN NothingSampled
          ELSE /\ position' # None
               /\ position'[1].timestamp = clock'
               /\ historyRef' # << >>
               /\ historyRef'[Len(historyRef')] = position'[1]]_vars

\* C32: tracking is on after the mount and after every startTracking, off
\* after every stopTracking; while it is off no mousemove event changes the
\* position, the history, the filter or the predicted position.
C32_StoppedIgnoresEvents ==
    /\ [](trLast.op \in {"mount", "start"} => trackingRef)
    /\ [](trLast.op = "stop" => ~trackingRef)
    /\ [][(moves' = moves + 1 /\ ~trackingRef) => NothingSampled]_vars

\* C32 witness: an event has come while tracking was off, after a sample had
\* been taken.
C32_Witness ==
    /\ trLast.op = "ignored"
    /\ ~trackingRef
    /\ position # None

\* The number of items of the tree that hold the element.
RECURSIVE StoredCount(_, _)
StoredCount(node, element) ==
    Cardinality({k \in 1..Len(node.items) : node.items[k].element = element})
      + (IF node.divided
         THEN StoredCount(node.children[1], element)
                + StoredCount(node.children[2], element)
                + StoredCount(node.children[3], element)
                + StoredCount(node.children[4], element)
         ELSE 0)

NoDuplicates(result) == Cardinality(Range(result)) = Len(result)

\* C35: the list queryLine returns never holds a region twice, for every
\* tree and segment.
C35_QueryWithoutDuplicates ==
    \A seg \in Segments : NoDuplicates(queryLine(tree, seg[1], seg[2]))

\* C35 witness: a region is held by a node and by a descendant of it, and a
\* query returns it.
C35_Witness ==
    \E element \in Elements, seg \in Segments :
        /\ StoredCount(tree, element) >= 2
        /\ element \in Range(queryLine(tree, seg[1], seg[2]))

\* C36: every insert returns: its recursion ends without exhausting the
\* call stack, also when more than capacity regions fall inside the same
\* cell of depth maxDepth.
C36_InsertTerminates == qtLast.op # "throw"

(***************************************************************************)
(* Claims about the registry of the provider (RegSpec)                     *)
(***************************************************************************)
\* The step is an evaluation cycle.
CycleStep == last'.op = "cycle" /\ lastExecutionTime' = now

\* The link of href url is, after the cycle, a candidate that has neither a
\* cache entry nor had a fetch in flight when the cycle began.
Eligible(url) ==
    /\ \E i \in 1..Len(potentialTargets') : potentialTargets'[i].element = url
    /\ ~CacheHas(preloadCache, url)
    /\ activePreloads[url] = 0

CandidateOf(url) ==
    potentialTargets'[CHOOSE i \in 1..Len(potentialTargets') :
                         potentialTargets'[i].element = url]

StartedInStep(url) == activePreloads[url] = 0 /\ activePreloads'[url] # 0

\* C33: in an evaluation cycle, of two registered targets that are eligible
\* with the same probability and timeToReach, the cycle does not start the
\* fetch of the one with the lower priority and leave out the other.
C33_PriorityOrdersPrefetch ==
    [][CycleStep =>
         \A a, b \in TargetIds :
            LET ta == registeredTargetsRef[a]
                tb == registeredTargetsRef[b]
            IN (/\ ta # None /\ tb # None
                /\ ta[1].priority > tb[1].priority
                /\ Eligible(ta[1].url) /\ Eligible(tb[1].url)
                /\ CandidateOf(ta[1].url).probability
                     = CandidateOf(tb[1].url).probability
                /\ CandidateOf(ta[1].url).timeToReach
                     = CandidateOf(tb[1].url).timeToReach)
               => ~(StartedInStep(tb[1].url) /\ ~StartedInStep(ta[1].url))]_vars

\* C34: preloadTarget(id) calls the fetch of the target registered under id
\* at that moment, its customFetch when it has one, with the target's url,
\* and calls nothing when there is none; the outcome of the fetch, also a
\* rejection, leaves the registry as it is.
C34_PreloadsRegisteredOnly ==
    /\ [](registeredTargets = registeredTargetsRef)
    /\ [][regLast'.op = "preloadTarget" /\ regLast' # regLast =>
            LET target == registeredTargetsRef[regLast'.id]
            IN /\ UNCHANGED << registeredTargets, registeredTargetsRef >>
               /\ IF target = None
                  THEN regLast'.called = None /\ UNCHANGED preloadCalls
                  ELSE /\ regLast'.called =
                             Some([fn |-> IF target[1].customFetch
                                          THEN "customFetch" ELSE "fetch",
                                   url |-> target[1].url])
                       /\ preloadCalls' = preloadCalls + 1]_vars
    /\ [][regLast'.op \in {"resolved", "rejected"} =>
            UNCHANGED << registeredTargets, registeredTargetsRef,
                         preloadCalls >>]_vars

\* C34 witness: preloadTarget has called the customFetch of a registered
\* target, while another id is not registered.
C34_Witness ==
    /\ regLast.op = "preloadTarget"
    /\ regLast.called # None
    /\ regLast.called[1].fn = "customFetch"
    /\ \E id \in TargetIds : registeredTargetsRef[id] = None

=============================================================================
